---- MODULE Spec2Model ----
(***************************************************************************)
(* A model of the Scheme interpreter: the expression/value representation, *)
(* the environment (chained frames with in-place mutation), the recursive  *)
(* evaluator and the read-eval-print loop that drives it.                  *)
(*                                                                         *)
(* Heap objects that the C++ code shares through shared_ptr are modelled   *)
(* by identity: a frame is an index into `frames`, a pair cell an index    *)
(* into `cells`.  The evaluator threads the heap (a record st with the     *)
(* fields frames, cells and probe) through every call and returns a record *)
(* [v |-> value, st |-> heap, ok |-> returned normally]; a thrown          *)
(* RuntimeError is the value [t |-> "error"] with ok FALSE, which every    *)
(* caller passes on unchanged.                                             *)
(***************************************************************************)
EXTENDS Integers, Sequences, FiniteSets, TLC

VARIABLES frames, cells, probe, val, input, prev, nInputs, running, argOrder,
          divOverflow

vars ==
    <<frames, cells, probe, val, input, prev, nInputs, running, argOrder,
      divOverflow>>

\* Bounds of the model: the inputs one run of the loop reads, the arguments
\* of a call, and the width of the machine integer (int is IntBits bits wide,
\* two's complement).
MaxInputs == 3
MaxArgs == 3
MaxClauses == 2
MaxOperands == 3
MaxNum == 3
MaxChain == 3
MaxItems == 3
IntBits == 12

RECURSIVE AndVar_loop_all(_, _, _, _)
RECURSIVE Expt_loop_strict(_, _, _)
RECURSIVE Eval(_, _, _)
RECURSIVE EvalArgs(_, _, _, _)
RECURSIVE Begin_loop(_, _, _, _)
RECURSIVE AndVar_loop(_, _, _, _)
RECURSIVE OrVar_loop(_, _, _, _)
RECURSIVE Let_loop(_, _, _, _, _)
RECURSIVE Letrec_loop(_, _, _, _)
RECURSIVE Cond_loop(_, _, _, _)
RECURSIVE ParseNames(_, _, _)
RECURSIVE ParseBindings(_, _, _, _)
RECURSIVE find(_, _, _)
RECURSIVE modify_walk(_, _, _)
RECURSIVE gcd(_, _)
RECURSIVE H_IsList(_, _)
RECURSIVE Quoted(_, _)
RECURSIVE Quoted_fold(_, _, _, _)
RECURSIVE ListFunc_fold(_, _, _)
RECURSIVE Accumulate(_, _, _, _)
RECURSIVE VarFactory_loop(_, _, _)
RECURSIVE Expt_loop(_, _, _)
RECURSIVE show(_, _)
RECURSIVE EvalArgs_reversed(_, _, _, _)
RECURSIVE showCdr(_, _)
RECURSIVE Chain(_, _)

(***************************************************************************)
(* Expressions and values (one class hierarchy in the code).               *)
(***************************************************************************)
FixnumE(n) == [t |-> "E_FIXNUM", n |-> n]
BooleanE(b) == [t |-> "E_BOOLEAN", b |-> b]
StringExprE(s) == [t |-> "E_STRING", s |-> s]
NullExprE == [t |-> "E_NULL"]
MakeVoidE == [t |-> "E_VOID"]
ExitE == [t |-> "E_EXIT"]
VarE(x) == [t |-> "E_VAR", x |-> x]
SListE(terms) == [t |-> "E_SLIST", terms |-> terms]
BeginE(es) == [t |-> "E_BEGIN", es |-> es]
PrimitiveE(type) == [t |-> "E_PRIMITIVE", type |-> type]
SpecialFormE(type) == [t |-> "E_SPECIALFORM", type |-> type]
ProcedureE(parameters, e, env) ==
    [t |-> "E_PROC", parameters |-> parameters, e |-> e, env |-> env]
\* A pair value is a handle on a cell of the heap.
PairRef(id) == [t |-> "E_PAIR", id |-> id]
\* Expr(nullptr): the null handle that define, set!, set-car!, ... return.
NullHandle == [t |-> "nullptr"]
\* A thrown RuntimeError, and the outcome of dereferencing a null handle or
\* indexing an empty vector (the process is lost).
RuntimeError(msg) == [t |-> "error", msg |-> msg]
Crash == [t |-> "crash"]

Abrupt(v) == v.t \in {"error", "crash"}

\* The outcome of a call: it returned v, or it threw v (ok is FALSE); either
\* way st is the heap it leaves.
Ret(v, st) == [v |-> v, st |-> st, ok |-> TRUE]
Throw(v, st) == [v |-> v, st |-> st, ok |-> FALSE]
RetV(v, st) == [v |-> v, st |-> st, ok |-> ~Abrupt(v)]

(***************************************************************************)
(* The name tables (Def.cpp is not part of the sources at hand; the names  *)
(* are those the specification lists, the tags those SList::eval switches  *)
(* on).                                                                    *)
(***************************************************************************)
primitives ==
    [x \in {"+", "-", "*", "/", "modulo", "expt", "<", "<=", "=", ">=", ">",
            "cons", "car", "cdr", "list", "set-car!", "set-cdr!",
            "not", "and", "or", "eq?", "boolean?", "number?", "null?",
            "pair?", "procedure?", "symbol?", "list?", "string?",
            "display", "void", "exit"} |->
       CASE x = "+" -> "E_PLUS" [] x = "-" -> "E_MINUS" [] x = "*" -> "E_MUL"
         [] x = "/" -> "E_DIV" [] x = "modulo" -> "E_MODULO"
         [] x = "expt" -> "E_EXPT" [] x = "<" -> "E_LT" [] x = "<=" -> "E_LE"
         [] x = "=" -> "E_EQ" [] x = ">=" -> "E_GE" [] x = ">" -> "E_GT"
         [] x = "cons" -> "E_CONS" [] x = "car" -> "E_CAR"
         [] x = "cdr" -> "E_CDR" [] x = "list" -> "E_LIST"
         [] x = "set-car!" -> "E_SETCAR" [] x = "set-cdr!" -> "E_SETCDR"
         [] x = "not" -> "E_NOT" [] x = "and" -> "E_AND" [] x = "or" -> "E_OR"
         [] x = "eq?" -> "E_EQQ" [] x = "boolean?" -> "E_BOOLQ"
         [] x = "number?" -> "E_INTQ" [] x = "null?" -> "E_NULLQ"
         [] x = "pair?" -> "E_PAIRQ" [] x = "procedure?" -> "E_PROCQ"
         [] x = "symbol?" -> "E_SYMBOLQ" [] x = "list?" -> "E_LISTQ"
         [] x = "string?" -> "E_STRINGQ" [] x = "display" -> "E_DISPLAY"
         [] x = "void" -> "E_VOID" [] x = "exit" -> "E_EXIT"]

reserved_words ==
    [x \in {"begin", "quote", "if", "cond", "lambda", "define", "let",
            "letrec", "set!"} |->
       CASE x = "begin" -> "E_BEGIN" [] x = "quote" -> "E_QUOTE"
         [] x = "if" -> "E_IF" [] x = "cond" -> "E_COND"
         [] x = "lambda" -> "E_LAMBDA" [] x = "define" -> "E_DEFINE"
         [] x = "let" -> "E_LET" [] x = "letrec" -> "E_LETREC"
         [] x = "set!" -> "E_SET"]

(***************************************************************************)
(* Environment: expr.cpp.                                                  *)
(***************************************************************************)
\* Env::Env(parent): a frame with no bindings; parent 0 is the null EnvPtr.
Env(parent_env) == [bindings |-> <<>>, parent |-> parent_env]

\* std::make_shared<Env>(parent): the new frame is the last of the heap.
NewEnv(parent_env, st) == [st EXCEPT !.frames = Append(@, Env(parent_env))]

Bound(x, f) == x \in DOMAIN f.bindings

\* find: the first binding along the chain, or the null handle.
find(x, env, fr) ==
    IF env = 0 THEN NullHandle
    ELSE IF Bound(x, fr[env]) THEN fr[env].bindings[x]
    ELSE find(x, fr[env].parent, fr)

\* The frame modify's loop stops in, or 0 when it runs off the chain.
modify_walk(x, env, fr) ==
    IF env = 0 THEN 0
    ELSE IF Bound(x, fr[env]) THEN env
    ELSE modify_walk(x, fr[env].parent, fr)

\* A set! that defines the name in the current frame when no frame binds it.
modify_or_define(x, v, env, st) ==
    LET cur == modify_walk(x, env, st.frames) IN
    Ret(NullHandle,
        [st EXCEPT !.frames[IF cur # 0 THEN cur ELSE env].bindings = (x :> v) @@ @])

\* A set! that overwrites the name in every frame of the chain that binds it.
modify_all(x, v, env, st) ==
    IF modify_walk(x, env, st.frames) = 0
    THEN Throw(RuntimeError("try to set! a non-existent var"), st)
    ELSE Ret(NullHandle,
             [st EXCEPT !.frames =
                 [g \in 1..Len(st.frames) |->
                     IF g \in Chain(env, st.frames) /\ Bound(x, st.frames[g])
                     THEN [st.frames[g] EXCEPT !.bindings = (x :> v) @@ @]
                     ELSE st.frames[g]]])

\* modify: overwrite the nearest binding, or throw.
modify(x, v, env, st) ==
    LET cur == modify_walk(x, env, st.frames) IN
    IF cur # 0
    THEN Ret(NullHandle, [st EXCEPT !.frames[cur].bindings = (x :> v) @@ @])
    ELSE Throw(RuntimeError("try to set! a non-existent var"), st)

\* A binding that overwrites the nearest binding of the name along the
\* chain, and inserts in the given frame only when there is none.
add_bind_nearest(x, v, env, st) ==
    IF env = 0
    THEN Throw(RuntimeError("attempt to bind in an empty environment"), st)
    ELSE IF modify_walk(x, env, st.frames) # 0
    THEN modify(x, v, env, st)
    ELSE Ret(NullHandle, [st EXCEPT !.frames[env].bindings = (x :> v) @@ @])

\* add_bind: insert or overwrite in the given frame.
add_bind(x, v, env, st) ==
    IF env = 0
    THEN Throw(RuntimeError("attempt to bind in an empty environment"), st)
    ELSE Ret(NullHandle,
             [st EXCEPT !.frames[env].bindings =
                 IF x \in DOMAIN @ THEN [@ EXCEPT ![x] = v] ELSE (x :> v) @@ @])

\* is_valid_var: the name is not empty, does not start with a digit, '@' or
\* '.', and holds no white space and none of # ' " and the grave accent (a
\* character no string of this notation can hold, so no name here holds it).
is_valid_var(s) ==
    /\ Len(s) > 0
    /\ SubSeq(s, 1, 1) \notin
           {"0", "1", "2", "3", "4", "5", "6", "7", "8", "9", "@", "."}
    /\ \A i \in 1..Len(s) :
           SubSeq(s, i, i) \notin {" ", "\t", "\n", "\r", "\f", "#", "'", "\""}

(***************************************************************************)
(* Machine integers and the numeric tower.                                 *)
(***************************************************************************)
Pow2Tab[k \in 0..31] == IF k = 0 THEN 1 ELSE 2 * Pow2Tab[k - 1]
INT_MAX == Pow2Tab[IntBits - 1] - 1
INT_MIN == -INT_MAX - 1

\* The value an int holds after an arithmetic result n (two's complement).
Wrap(n) == ((n - INT_MIN) % (2 * (INT_MAX + 1))) + INT_MIN

abs(n) == IF n < 0 THEN Wrap(-n) ELSE n
\* C++ integer division and remainder truncate toward zero.
CDiv(a, b) == LET q == (IF a < 0 THEN -a ELSE a) \div (IF b < 0 THEN -b ELSE b)
              IN IF (a < 0) # (b < 0) THEN -q ELSE q
CRem(a, b) == a - b * CDiv(a, b)

gcd(a, b) == IF b # 0 THEN gcd(b, CRem(a, b)) ELSE a

isInt(v) == v.t = "E_FIXNUM"
isRat(v) == v.t = "E_RATIONAL"
isNum(v) == isInt(v) \/ isRat(v)

\* INT_MIN / -1 and INT_MIN % -1 overflow, which is undefined: the division
\* instruction of the build either traps, which ends the process, or gives
\* the wrapped quotient and the remainder 0; divOverflow is which.
DivTraps(a, b) == divOverflow = "trap" /\ a = INT_MIN /\ b = -1

\* RationalNum::RationalNum(num, den): reduce by g, the gcd, then make the
\* denominator positive.  A zero gcd (0/0) divides by zero.
RationalNum_sign(numerator, denominator) ==
    IF denominator < 0
    THEN [t |-> "E_RATIONAL", numerator |-> Wrap(-numerator),
          denominator |-> Wrap(-denominator)]
    ELSE [t |-> "E_RATIONAL", numerator |-> numerator,
          denominator |-> denominator]

RationalNum_reduce(num, den, g) ==
    IF g = 0 \/ DivTraps(num, g) \/ DivTraps(den, g) THEN Crash
    ELSE RationalNum_sign(Wrap(CDiv(num, g)), Wrap(CDiv(den, g)))

RationalNum(num, den) == RationalNum_reduce(num, den, gcd(abs(num), abs(den)))

RationalNumE(num, den) == RationalNum(num, den)

toRational(v) ==
    IF v.t = "E_FIXNUM"
    THEN [t |-> "E_RATIONAL", numerator |-> v.n, denominator |-> 1]
    ELSE v

\* The end of H_Plus, H_Minus, H_Mult and H_Div: ans is the RationalNum of
\* numerator3 and denominator3; a denominator of 1 gives a Fixnum,
\* otherwise the RationalNumE of the same two numbers, which is ans again.
H_Result(ans) ==
    IF Abrupt(ans) THEN ans
    ELSE IF ans.denominator = 1 THEN FixnumE(ans.numerator)
    ELSE ans

\* isNum(rand1) && isNum(rand2) on handles: a null handle is dereferenced.
NumCheck(rand1, rand2) ==
    IF rand1.t = "nullptr" THEN Crash
    ELSE IF ~isNum(rand1) THEN RuntimeError("Wrong typename")
    ELSE IF rand2.t = "nullptr" THEN Crash
    ELSE IF ~isNum(rand2) THEN RuntimeError("Wrong typename")
    ELSE NullHandle

\* The body of an arithmetic helper: the outcome c of the type test, then
\* the result r.
H_Guard(c, r) == IF Abrupt(c) THEN c ELSE r

H_Plus3(a1, a2) ==
    H_Result(RationalNum(Wrap(Wrap(a1.numerator * a2.denominator)
                              + Wrap(a1.denominator * a2.numerator)),
                         Wrap(a1.denominator * a2.denominator)))

H_Plus(rand1, rand2) ==
    H_Guard(NumCheck(rand1, rand2), H_Plus3(toRational(rand1), toRational(rand2)))

H_Minus3(a1, a2) ==
    H_Result(RationalNum(Wrap(Wrap(a1.numerator * a2.denominator)
                              - Wrap(a1.denominator * a2.numerator)),
                         Wrap(a1.denominator * a2.denominator)))

H_Minus(rand1, rand2) ==
    H_Guard(NumCheck(rand1, rand2), H_Minus3(toRational(rand1), toRational(rand2)))

H_Mult3(a1, a2) ==
    H_Result(RationalNum(Wrap(a1.numerator * a2.numerator),
                         Wrap(a1.denominator * a2.denominator)))

H_Mult(rand1, rand2) ==
    H_Guard(NumCheck(rand1, rand2), H_Mult3(toRational(rand1), toRational(rand2)))

H_Div3(a1, a2) ==
    IF a2.numerator = 0 THEN RuntimeError("Division by zero")
    ELSE H_Result(RationalNum(Wrap(a1.numerator * a2.denominator),
                              Wrap(a1.denominator * a2.numerator)))

H_Div(rand1, rand2) ==
    H_Guard(NumCheck(rand1, rand2), H_Div3(toRational(rand1), toRational(rand2)))

Modulo_evalRator(rand1, rand2) ==
    IF rand1.t = "nullptr" THEN Crash
    ELSE IF rand1.t # "E_FIXNUM"
    THEN RuntimeError("modulo is only defined for Fixnums")
    ELSE IF rand2.t = "nullptr" THEN Crash
    ELSE IF rand2.t # "E_FIXNUM"
    THEN RuntimeError("modulo is only defined for Fixnums")
    ELSE IF rand2.n = 0 THEN RuntimeError("Division by zero")
    ELSE IF DivTraps(rand1.n, rand2.n) THEN Crash
    ELSE FixnumE(Wrap(CRem(rand1.n, rand2.n)))

\* A loop that reports overflow as soon as the square of b leaves the range,
\* also when that square is never used.
Expt_loop_strict(result, b, exp) ==
    IF exp > 0
    THEN LET r2 == IF exp % 2 = 1 THEN result * b ELSE result
             b2 == b * b
         IN IF exp % 2 = 1 /\ (r2 > INT_MAX \/ r2 < INT_MIN)
            THEN RuntimeError("Fixnum overflow in expt")
            ELSE IF b2 > INT_MAX \/ b2 < INT_MIN
            THEN RuntimeError("Fixnum overflow in expt")
            ELSE Expt_loop_strict(r2, b2, exp \div 2)
    ELSE FixnumE(Wrap(result))

\* The while loop of Expt::evalRator on long long result and b.
Expt_loop(result, b, exp) ==
    IF exp > 0
    THEN LET r2 == IF exp % 2 = 1 THEN result * b ELSE result
             b2 == b * b
         IN IF exp % 2 = 1 /\ (r2 > INT_MAX \/ r2 < INT_MIN)
            THEN RuntimeError("Fixnum overflow in expt")
            ELSE IF (b2 > INT_MAX \/ b2 < INT_MIN) /\ exp > 1
            THEN RuntimeError("Fixnum overflow in expt")
            ELSE Expt_loop(r2, b2, exp \div 2)
    ELSE FixnumE(Wrap(result))

Expt_evalRator(rand1, rand2) ==
    IF rand1.t = "nullptr" THEN Crash
    ELSE IF rand1.t # "E_FIXNUM" THEN RuntimeError("Wrong typename")
    ELSE IF rand2.t = "nullptr" THEN Crash
    ELSE IF rand2.t # "E_FIXNUM" THEN RuntimeError("Wrong typename")
    ELSE IF rand2.n < 0
    THEN RuntimeError("Negative exponent not supported for Fixnums")
    ELSE IF rand1.n = 0 /\ rand2.n = 0 THEN RuntimeError("0^0 is undefined")
    ELSE Expt_loop(1, rand1.n, rand2.n)

Sign(left, right) == IF left < right THEN -1 ELSE IF left > right THEN 1 ELSE 0

\* compareNumericExprs: -1, 0 or 1 in the field n, or the thrown error.
compareNumericExprs(v1, v2) ==
    IF v1.t = "nullptr" THEN Crash
    ELSE IF v1.t = "E_FIXNUM" /\ v2.t = "nullptr" THEN Crash
    ELSE IF v1.t = "E_FIXNUM" /\ v2.t = "E_FIXNUM"
    THEN FixnumE(Sign(v1.n, v2.n))
    ELSE IF v1.t = "E_RATIONAL" /\ v2.t = "nullptr" THEN Crash
    ELSE IF v1.t = "E_RATIONAL" /\ v2.t = "E_FIXNUM"
    THEN FixnumE(Sign(v1.numerator, Wrap(v2.n * v1.denominator)))
    ELSE IF v1.t = "E_FIXNUM" /\ v2.t = "E_RATIONAL"
    THEN FixnumE(Sign(Wrap(v1.n * v2.denominator), v2.numerator))
    ELSE IF v1.t = "E_RATIONAL" /\ v2.t = "E_RATIONAL"
    THEN FixnumE(Sign(Wrap(v1.numerator * v2.denominator),
                      Wrap(v2.numerator * v1.denominator)))
    ELSE RuntimeError("Wrong typename in numeric comparison")

\* H_Less, H_LessEq, H_Equal, H_GreaterEq, H_Greater by the operator's tag.
\* res is what compareNumericExprs gave.
H_Compare(type, res) ==
    IF Abrupt(res) THEN res
    ELSE BooleanE(CASE type = "E_LT" -> res.n = -1
                    [] type = "E_LE" -> res.n = -1 \/ res.n = 0
                    [] type = "E_EQ" -> res.n = 0
                    [] type = "E_GE" -> res.n = 0 \/ res.n = 1
                    [] type = "E_GT" -> res.n = 1)

\* The loop of the lambda VarFactory returns, from the pair (i, i + 1) on;
\* c is what the comparison of that pair gave.
VarFactory_step(type, args, i, c) ==
    IF Abrupt(c) THEN c
    ELSE IF ~c.b THEN BooleanE(FALSE)
    ELSE VarFactory_loop(type, args, i + 1)

VarFactory_loop(type, args, i) ==
    IF i + 1 > Len(args) THEN BooleanE(TRUE)
    ELSE VarFactory_step(type, args, i,
             H_Compare(type, compareNumericExprs(args[i], args[i + 1])))

VarFactory(type, args) ==
    IF Len(args) <= 1 THEN BooleanE(TRUE) ELSE VarFactory_loop(type, args, 1)

\* The arithmetic helper an operator tag stands for.
H_Arith(type, a, b) ==
    CASE type = "E_PLUS" -> H_Plus(a, b)
      [] type = "E_MINUS" -> H_Minus(a, b)
      [] type = "E_MUL" -> H_Mult(a, b)
      [] type = "E_DIV" -> H_Div(a, b)

\* std::accumulate(args[i..], acc, H): a thrown error ends the fold.
Accumulate(type, args, i, acc) ==
    IF i > Len(args) \/ Abrupt(acc) THEN acc
    ELSE Accumulate(type, args, i + 1, H_Arith(type, acc, args[i]))

PlusVar_evalRator(args) == Accumulate("E_PLUS", args, 1, FixnumE(0))
MinusVar_evalRator(args) ==
    IF Len(args) = 1 THEN H_Minus(FixnumE(0), args[1])
    ELSE Accumulate("E_MINUS", args, 2, args[1])
MultVar_evalRator(args) == Accumulate("E_MUL", args, 1, FixnumE(1))
DivVar_evalRator(args) ==
    IF Len(args) = 1 THEN H_Div(FixnumE(1), args[1])
    ELSE Accumulate("E_DIV", args, 2, args[1])

(***************************************************************************)
(* Pairs and lists.                                                        *)
(***************************************************************************)
\* PairE(car, cdr): a new cell, the last of the heap.
PairE(car, cdr, st) ==
    Ret(PairRef(Len(st.cells) + 1),
        [st EXCEPT !.cells = Append(@, [car |-> car, cdr |-> cdr])])

Cons_evalRator(rand1, rand2, st) == PairE(rand1, rand2, st)

\* ListFunc::evalRator: accumulate from the last argument, i = Len(args)..1.
ListFunc_fold(args, i, r) ==
    IF i = 0 THEN r
    ELSE ListFunc_fold(args, i - 1, PairE(args[i], r.v, r.st))

ListFunc_evalRator(args, st) == ListFunc_fold(args, Len(args), Ret(NullExprE, st))

H_IsList(rand, cs) ==
    IF rand.t = "nullptr" THEN Crash
    ELSE IF rand.t = "E_NULL" THEN BooleanE(TRUE)
    ELSE IF rand.t = "E_PAIR" THEN H_IsList(cs[rand.id].cdr, cs)
    ELSE BooleanE(FALSE)

Car_evalRator(rand, st) ==
    IF rand.t = "nullptr" THEN Crash
    ELSE IF rand.t # "E_PAIR" THEN RuntimeError("Wrong typename")
    ELSE st.cells[rand.id].car

Cdr_evalRator(rand, st) ==
    IF rand.t = "nullptr" THEN Crash
    ELSE IF rand.t # "E_PAIR" THEN RuntimeError("Wrong typename")
    ELSE st.cells[rand.id].cdr

\* A set-car! that leaves the cell alone and writes a changed copy of it.
SetCar_evalRator_copy(rand1, rand2, st) ==
    IF rand1.t # "E_PAIR"
    THEN Throw(RuntimeError("Wrong form of arguments for set-car!"), st)
    ELSE Ret(NullHandle,
             [st EXCEPT !.cells =
                 Append(@, [car |-> rand2, cdr |-> @[rand1.id].cdr])])

SetCar_evalRator(rand1, rand2, st) ==
    IF rand1.t = "nullptr" THEN Throw(Crash, st)
    ELSE IF rand1.t # "E_PAIR"
    THEN Throw(RuntimeError("Wrong form of arguments for set-car!"), st)
    ELSE Ret(NullHandle, [st EXCEPT !.cells[rand1.id].car = rand2])

SetCdr_evalRator(rand1, rand2, st) ==
    IF rand1.t = "nullptr" THEN Throw(Crash, st)
    ELSE IF rand1.t # "E_PAIR"
    THEN Throw(RuntimeError("Wrong form of arguments for set-cdr!"), st)
    ELSE Ret(NullHandle, [st EXCEPT !.cells[rand1.id].cdr = rand2])

\* IsEq::evalRator.  The last branch compares addresses: two handles on
\* one pair cell are equal; objects of different classes never are.
IsEq_evalRator(rand1, rand2) ==
    IF rand1.t = "nullptr" \/ rand2.t = "nullptr" THEN Crash
    ELSE IF rand1.t = "E_FIXNUM" /\ rand2.t = "E_FIXNUM"
    THEN BooleanE(rand1.n = rand2.n)
    ELSE IF rand1.t = "E_BOOLEAN" /\ rand2.t = "E_BOOLEAN"
    THEN BooleanE(rand1.b = rand2.b)
    ELSE IF rand1.t = "E_VAR" /\ rand2.t = "E_VAR"
    THEN BooleanE(rand1.x = rand2.x)
    ELSE IF (rand1.t = "E_NULL" /\ rand2.t = "E_NULL")
            \/ (rand1.t = "E_VOID" /\ rand2.t = "E_VOID")
    THEN BooleanE(TRUE)
    ELSE BooleanE(rand1.t = "E_PAIR" /\ rand1 = rand2)

\* The type predicates: the runtime tag against the queried one.
TypePredicate(tag, rand) ==
    IF rand.t = "nullptr" THEN Crash ELSE BooleanE(rand.t = tag)

is_false(a) == IF a.t = "nullptr" THEN FALSE ELSE a.t = "E_BOOLEAN" /\ ~a.b
is_true(a) == ~is_false(a)

Not_evalRator(rand) == BooleanE(is_false(rand))

\* Display::evalRator: what is written is not part of the state.
Display_evalRator(rand) == IF rand.t = "nullptr" THEN Crash ELSE NullHandle

\* Quoted without the test for a dot: every list is folded onto the empty list.
Quoted_proper(e, st) ==
    IF e.t # "E_SLIST" THEN Ret(e, st)
    ELSE Quoted_fold(e.terms, Len(e.terms), NullExprE, st)

\* Quoted: literal data from a parsed term.  Quoted_fold is the accumulate
\* over terms[i], terms[i-1], ..., terms[1] onto `tail`.
Quoted_fold(terms, i, tail, st) ==
    IF i = 0 THEN Ret(tail, st)
    ELSE LET q == Quoted(terms[i], st)
             p == PairE(q.v, tail, q.st)
         IN Quoted_fold(terms, i - 1, p.v, p.st)

Quoted(e, st) ==
    IF e.t # "E_SLIST" THEN Ret(e, st)
    ELSE LET terms == e.terms
             n == Len(terms) IN
         IF n >= 3 /\ terms[n - 1].t = "E_VAR" /\ terms[n - 1].x = "."
         THEN LET ex == Quoted(terms[n], st)
              IN Quoted_fold(terms, n - 2, ex.v, ex.st)
         ELSE Quoted_fold(terms, n, NullExprE, st)

\* show of each expression class: the text written for the value v, given the
\* cells cs.  Pair::show writes car with operator<<, which dereferences the
\* handle untested, so there is no arm for a null field.
show(v, cs) ==
    CASE v.t = "E_FIXNUM" -> ToString(v.n)
      [] v.t = "E_RATIONAL" ->
            IF v.denominator = 1 THEN ToString(v.numerator)
            ELSE ToString(v.numerator) \o "/" \o ToString(v.denominator)
      [] v.t = "E_STRING" -> "\"" \o v.s \o "\""
      [] v.t = "E_BOOLEAN" -> IF v.b THEN "#t" ELSE "#f"
      [] v.t = "E_VOID" -> "#<void>"
      [] v.t \in {"E_EXIT", "E_SPECIALFORM"} -> ""
      [] v.t = "E_NULL" -> "()"
      [] v.t = "E_VAR" -> v.x
      [] v.t \in {"E_PROC", "E_PRIMITIVE"} -> "#<procedure>"
      [] v.t = "E_PAIR" ->
            "(" \o show(cs[v.id].car, cs) \o showCdr(cs[v.id].cdr, cs)

\* showCdr: ")" for the empty list, the next element for a pair, and the
\* dotted tail of ExprBase::showCdr for everything else.
showCdr(v, cs) ==
    CASE v.t = "E_NULL" -> ")"
      [] v.t = "E_PAIR" ->
            " " \o show(cs[v.id].car, cs) \o showCdr(cs[v.id].cdr, cs)
      [] OTHER -> " . " \o show(v, cs) \o ")"

\* Expr::show, as REPL calls it on the result: nothing for the null handle.
Expr_show(v, cs) == IF v = NullHandle THEN "" ELSE show(v, cs)

(***************************************************************************)
(* The evaluator: main.cpp, eval of every expression class.  An operator   *)
(* that takes the outcome r of an earlier evaluation models the rest of    *)
(* the C++ function after that call has returned or thrown.                *)
(***************************************************************************)
\* Var::eval: the chain, then the primitives, then the reserved words.
Var_eval(x, env, st) ==
    LET matched_Expr == find(x, env, st.frames) IN
    IF matched_Expr.t = "nullptr"
    THEN IF x \in DOMAIN primitives THEN Ret(PrimitiveE(primitives[x]), st)
         ELSE IF x \in DOMAIN reserved_words
         THEN Ret(SpecialFormE(reserved_words[x]), st)
         ELSE Throw(RuntimeError("undefined variable"), st)
    ELSE Ret(matched_Expr, st)

\* The terms es[1..n] evaluated from the last to the first; the values are in
\* the field vs in the order of the terms.
EvalArgs_reversed(es, n, env, st) ==
    IF n = 0 THEN [v |-> NullHandle, vs |-> <<>>, st |-> st, ok |-> TRUE]
    ELSE LET r == Eval(es[n], env, st) IN
         IF ~r.ok THEN [v |-> r.v, vs |-> <<>>, st |-> r.st, ok |-> FALSE]
         ELSE LET ra == EvalArgs_reversed(es, n - 1, env, r.st) IN
              IF ra.ok THEN [ra EXCEPT !.vs = Append(@, r.v)] ELSE ra

\* The std::transform of SList::eval and Variadic::eval: the terms es[1..n]
\* in order, the first throw ends it.  The values are in the field vs.
\* EvalArg is one call of its lambda, after the calls that gave ra.
EvalArg(ra, x, env) ==
    IF ra.ok
    THEN LET r == Eval(x, env, ra.st) IN
         [v |-> r.v, vs |-> IF r.ok THEN Append(ra.vs, r.v) ELSE ra.vs,
          st |-> r.st, ok |-> r.ok]
    ELSE ra

EvalArgs(es, n, env, st) ==
    IF n = 0 THEN [v |-> NullHandle, vs |-> <<>>, st |-> st, ok |-> TRUE]
    ELSE EvalArg(EvalArgs(es, n - 1, env, st), es[n], env)

\* Unary::eval: the evalRator of the operator on the operand's value r.
Unary_eval(type, r) ==
    IF ~r.ok THEN r
    ELSE CASE type = "E_CAR" -> RetV(Car_evalRator(r.v, r.st), r.st)
           [] type = "E_CDR" -> RetV(Cdr_evalRator(r.v, r.st), r.st)
           [] type = "E_NOT" -> RetV(Not_evalRator(r.v), r.st)
           [] type = "E_LISTQ" -> RetV(H_IsList(r.v, r.st.cells), r.st)
           [] type = "E_DISPLAY" -> RetV(Display_evalRator(r.v), r.st)
           [] type = "E_BOOLQ" -> RetV(TypePredicate("E_BOOLEAN", r.v), r.st)
           [] type = "E_INTQ" -> RetV(TypePredicate("E_FIXNUM", r.v), r.st)
           [] type = "E_NULLQ" -> RetV(TypePredicate("E_NULL", r.v), r.st)
           [] type = "E_PAIRQ" -> RetV(TypePredicate("E_PAIR", r.v), r.st)
           [] type = "E_PROCQ" -> RetV(TypePredicate("E_PROC", r.v), r.st)
           [] type = "E_SYMBOLQ" -> RetV(TypePredicate("E_VAR", r.v), r.st)
           [] type = "E_STRINGQ" -> RetV(TypePredicate("E_STRING", r.v), r.st)

\* The record of a call of SetCar::evalRator or SetCdr::evalRator: the field,
\* the two operands, the cells before it and its outcome r.
ObservePair(field, rand1, rand2, st, r) ==
    [r EXCEPT !.st.probe.pair =
        [field |-> field, rand1 |-> rand1, rand2 |-> rand2,
         before |-> st.cells, after |-> r.st.cells, v |-> r.v, ok |-> r.ok]]

\* The evalRator of a binary operator on two values.
Binary_evalRator(type, v1, v2, st) ==
    CASE type = "E_MODULO" -> RetV(Modulo_evalRator(v1, v2), st)
      [] type = "E_EXPT" -> RetV(Expt_evalRator(v1, v2), st)
      [] type = "E_CONS" -> Cons_evalRator(v1, v2, st)
      [] type = "E_SETCAR" ->
           ObservePair("car", v1, v2, st, SetCar_evalRator(v1, v2, st))
      [] type = "E_SETCDR" ->
           ObservePair("cdr", v1, v2, st, SetCdr_evalRator(v1, v2, st))
      [] type = "E_EQQ" -> RetV(IsEq_evalRator(v1, v2), st)

\* Binary::eval: evalRator(rand1->eval(e), rand2->eval(e)).  C++ leaves the
\* order of the two argument evaluations to the compiler: argOrder is the
\* order this build uses.
Binary_eval(type, rand1, rand2, env, st) ==
    IF argOrder = "left-first"
    THEN LET r1 == Eval(rand1, env, st) IN
         IF ~r1.ok THEN r1
         ELSE LET r2 == Eval(rand2, env, r1.st) IN
              IF ~r2.ok THEN r2
              ELSE Binary_evalRator(type, r1.v, r2.v, r2.st)
    ELSE LET r2 == Eval(rand2, env, st) IN
         IF ~r2.ok THEN r2
         ELSE LET r1 == Eval(rand1, env, r2.st) IN
              IF ~r1.ok THEN r1
              ELSE Binary_evalRator(type, r1.v, r2.v, r1.st)

\* Variadic::eval: the evalRator of the operator on the operands' values ra.
Variadic_eval(type, ra) ==
    IF ra.ok
    THEN CASE type = "E_PLUS" -> RetV(PlusVar_evalRator(ra.vs), ra.st)
           [] type = "E_MINUS" -> RetV(MinusVar_evalRator(ra.vs), ra.st)
           [] type = "E_MUL" -> RetV(MultVar_evalRator(ra.vs), ra.st)
           [] type = "E_DIV" -> RetV(DivVar_evalRator(ra.vs), ra.st)
           [] type = "E_LIST" -> ListFunc_evalRator(ra.vs, ra.st)
           [] OTHER -> RetV(VarFactory(type, ra.vs), ra.st)
    ELSE Throw(ra.v, ra.st)

\* Begin::eval: the while loop over es[1..n] (all but the last), then the
\* last one, whose value is returned.
Begin_step(r, x, env) == IF r.ok THEN Eval(x, env, r.st) ELSE r

Begin_loop(es, n, env, st) ==
    IF n = 0 THEN Ret(NullHandle, st)
    ELSE Begin_step(Begin_loop(es, n - 1, env, st), es[n], env)

Begin_eval(es, env, st) ==
    CASE Len(es) = 1 -> Eval(es[1], env, st)
      [] Len(es) = 0 -> Ret(NullHandle, st)
      [] OTHER -> Begin_step(Begin_loop(es, Len(es) - 1, env, st),
                             es[Len(es)], env)

\* AndVar::eval, OrVar::eval: the loop from rands[i] on.
\* An and that evaluates every operand before it answers.
AndVar_loop_all(rands, i, env, st) ==
    LET last == Eval(rands[i], env, st) IN
    IF ~last.ok \/ i = Len(rands) THEN last
    ELSE IF is_false(last.v)
    THEN [AndVar_loop_all(rands, i + 1, env, last.st) EXCEPT !.v = last.v]
    ELSE AndVar_loop_all(rands, i + 1, env, last.st)

AndVar_loop(rands, i, env, st) ==
    LET last == Eval(rands[i], env, st) IN
    IF ~last.ok \/ is_false(last.v) \/ i = Len(rands) THEN last
    ELSE AndVar_loop(rands, i + 1, env, last.st)

AndVar_eval(rands, env, st) ==
    IF rands = <<>> THEN Ret(BooleanE(TRUE), st)
    ELSE AndVar_loop(rands, 1, env, st)

OrVar_loop(rands, i, env, st) ==
    LET last == Eval(rands[i], env, st) IN
    IF ~last.ok \/ is_true(last.v) \/ i = Len(rands) THEN last
    ELSE OrVar_loop(rands, i + 1, env, last.st)

OrVar_eval(rands, env, st) ==
    IF rands = <<>> THEN Ret(BooleanE(FALSE), st)
    ELSE OrVar_loop(rands, 1, env, st)

\* If::eval once the condition has given cond_res.
If_eval(cond_res, conseq, alter, env) ==
    CASE ~cond_res.ok -> cond_res
      [] cond_res.ok /\ is_false(cond_res.v) -> Eval(alter, env, cond_res.st)
      [] OTHER -> Eval(conseq, env, cond_res.st)

\* Cond::eval: the clauses from clauses[i] on; the last one is tried for else.
Cond_loop(clauses, i, env, st) ==
    LET list == clauses[i] IN
    IF list.t # "E_SLIST"
    THEN Throw(RuntimeError("Wrong form of arguments for cond"), st)
    ELSE LET terms == list.terms IN
         IF Len(terms) = 0
         THEN Throw(RuntimeError("Wrong number of arguments for cond"), st)
         ELSE IF Len(terms) = 1 THEN Eval(terms[1], env, st)
         ELSE IF /\ i = Len(clauses)
                 /\ terms[1].t = "E_VAR"
                 /\ find(terms[1].x, env, st.frames).t = "nullptr"
                 /\ terms[1].x = "else"
         THEN Begin_eval(Tail(terms), env, st)
         ELSE LET cond_res == Eval(terms[1], env, st) IN
              IF ~cond_res.ok THEN cond_res
              ELSE IF is_true(cond_res.v)
              THEN Begin_eval(Tail(terms), env, cond_res.st)
              ELSE IF i = Len(clauses) THEN Ret(NullHandle, cond_res.st)
              ELSE Cond_loop(clauses, i + 1, env, cond_res.st)

\* clauses.end() - 1 of an empty vector is out of bounds.
Cond_eval(clauses, env, st) ==
    IF clauses = <<>> THEN Throw(Crash, st) ELSE Cond_loop(clauses, 1, env, st)

\* A lambda that captures a copy of the frame it is evaluated in.
Lambda_eval_copy(x, e, env, st) ==
    Ret(ProcedureE(x, e, Len(st.frames) + 1),
        [st EXCEPT !.frames = Append(@, @[env])])

\* Lambda::eval: the closure holds the frame itself (a shared EnvPtr).
Lambda_eval(x, e, env, st) == Ret(ProcedureE(x, e, env), st)

\* The loop of Apply::eval: parameters[1..n] bound to rand[1..n] in param_env.
ApplyBind(parameters, rand, n, param_env, st) ==
    LET F[k \in 0..n] ==
          IF k = 0 THEN st
          ELSE add_bind(parameters[k], rand[k], param_env, F[k - 1]).st
    IN F[n]

\* What the last call of Apply::eval did: the closure, the arguments, the
\* frame the call came from, the frame it made and the frames when the body
\* started.
ApplyProbe(p, rand, env, param_env, st) ==
    [st EXCEPT !.probe.apply =
        [proc |-> p, rand |-> rand, caller |-> env, param_env |-> param_env,
         frames |-> st.frames]]

\* An application whose new frame is a child of the caller's frame.
Apply_eval_dynamic(p, ra, env) ==
    CASE ~ra.ok -> Throw(ra.v, ra.st)
      [] ra.ok /\ Len(ra.vs) # Len(p.parameters) ->
           Throw(RuntimeError("Wrong number of arguments"), ra.st)
      [] OTHER ->
           Begin_eval(p.e.es, Len(ra.st.frames) + 1,
               ApplyProbe(p, ra.vs, env, Len(ra.st.frames) + 1,
                   ApplyBind(p.parameters, ra.vs, Len(ra.vs),
                             Len(ra.st.frames) + 1, NewEnv(env, ra.st))))

\* An application without the test of the argument count: the parameters
\* that have an argument are bound and the body runs.
Apply_eval_unchecked(p, ra, env) ==
    CASE ~ra.ok -> Throw(ra.v, ra.st)
      [] OTHER ->
           Begin_eval(p.e.es, Len(ra.st.frames) + 1,
               ApplyProbe(p, ra.vs, env, Len(ra.st.frames) + 1,
                   ApplyBind(p.parameters, ra.vs,
                             IF Len(ra.vs) < Len(p.parameters)
                             THEN Len(ra.vs) ELSE Len(p.parameters),
                             Len(ra.st.frames) + 1, NewEnv(p.env, ra.st))))

\* An application that binds the parameters in the captured frame itself and
\* runs the body there, without a frame of its own.
Apply_eval_shared(p, ra, env) ==
    CASE ~ra.ok -> Throw(ra.v, ra.st)
      [] ra.ok /\ Len(ra.vs) # Len(p.parameters) ->
           Throw(RuntimeError("Wrong number of arguments"), ra.st)
      [] OTHER ->
           Begin_eval(p.e.es, p.env,
               ApplyProbe(p, ra.vs, env, p.env,
                   ApplyBind(p.parameters, ra.vs, Len(ra.vs), p.env, ra.st)))

\* Apply::eval, with the outcome ra of evaluating the arguments.
Apply_eval(p, ra, env) ==
    CASE ~ra.ok -> Throw(ra.v, ra.st)
      [] ra.ok /\ Len(ra.vs) # Len(p.parameters) ->
           Throw(RuntimeError("Wrong number of arguments"), ra.st)
      [] OTHER ->
           Begin_eval(p.e.es, Len(ra.st.frames) + 1,
               ApplyProbe(p, ra.vs, env, Len(ra.st.frames) + 1,
                   ApplyBind(p.parameters, ra.vs, Len(ra.vs),
                             Len(ra.st.frames) + 1, NewEnv(p.env, ra.st))))

\* The record of a call of Define::eval, Define_f::eval or Set::eval: the
\* name, the frame the form was evaluated in, the value, the frames when
\* add_bind or modify was called and the outcome r of that call.
Observe(kind, var, env, value, st, r) ==
    [r EXCEPT !.st.probe[kind] =
        [var |-> var, env |-> env, value |-> value, before |-> st.frames,
         after |-> r.st.frames, ok |-> r.ok]]

Define_eval(var, e, env, st) ==
    LET r == Eval(e, env, st) IN
    IF ~r.ok THEN r
    ELSE Observe("define", var, env, r.v, r.st, add_bind(var, r.v, env, r.st))

\* A function define whose closure captures a copy of the frame, made
\* before the name is bound.
Define_f_eval_copy(var, x, es, env, st) ==
    IF env = 0 THEN Throw(RuntimeError("define needs an environment"), st)
    ELSE Observe("define", var, env,
                 ProcedureE(x, BeginE(es), Len(st.frames) + 1), st,
                 add_bind(var, ProcedureE(x, BeginE(es), Len(st.frames) + 1), env,
                          [st EXCEPT !.frames = Append(@, @[env])]))

Define_f_eval(var, x, es, env, st) ==
    IF env = 0 THEN Throw(RuntimeError("define needs an environment"), st)
    ELSE LET proc == ProcedureE(x, BeginE(es), env) IN
         Observe("define", var, env, proc, st, add_bind(var, proc, env, st))

\* The loop of Let::eval over bind[i..]: initializers in env, bindings in
\* param_env.
Let_loop(bind, i, env, param_env, st) ==
    IF i > Len(bind) THEN Ret(NullHandle, st)
    ELSE LET r == Eval(bind[i][2], env, st) IN
         IF ~r.ok THEN r
         ELSE Let_loop(bind, i + 1, env, param_env,
                       add_bind(bind[i][1], r.v, param_env, r.st).st)

\* What the last call of Let::eval did: its bindings, its two frames, the
\* frames when it was called and the frames when its body started.
LetProbe(bind, env, param_env, before, st) ==
    [st EXCEPT !.probe.let =
        [bind |-> bind, env |-> env, param_env |-> param_env,
         before |-> before, frames |-> st.frames]]

\* A let whose initializers are evaluated in the new frame, one after the
\* other.
Let_eval_inner(bind, body, env, st) ==
    LET r == Letrec_loop(bind, 1, Len(st.frames) + 1, NewEnv(env, st)) IN
    IF ~r.ok THEN r
    ELSE Begin_eval(body, Len(st.frames) + 1,
                    LetProbe(bind, env, Len(st.frames) + 1, st.frames, r.st))

Let_eval(bind, body, env, st) ==
    LET r == Let_loop(bind, 1, env, Len(st.frames) + 1, NewEnv(env, st)) IN
    IF ~r.ok THEN r
    ELSE Begin_eval(body, Len(st.frames) + 1,
                    LetProbe(bind, env, Len(st.frames) + 1, st.frames, r.st))

\* The loop of Letrec::eval over bind[i..]: initializers and bindings both in
\* param_env.
Letrec_loop(bind, i, param_env, st) ==
    IF i > Len(bind) THEN Ret(NullHandle, st)
    ELSE LET r == Eval(bind[i][2], param_env, st) IN
         IF ~r.ok THEN r
         ELSE Letrec_loop(bind, i + 1, param_env,
                          add_bind(bind[i][1], r.v, param_env, r.st).st)

\* What the last call of Letrec::eval started from: its bindings, its two
\* frames and the frames when its first initializer was evaluated.
LetrecProbe(bind, env, param_env, st) ==
    [st EXCEPT !.probe.letrec =
        [bind |-> bind, env |-> env, param_env |-> param_env,
         frames |-> st.frames]]

\* A letrec whose initializers are evaluated in the outer environment.
Letrec_eval_outer(bind, body, env, st) == Let_eval(bind, body, env, st)

Letrec_eval(bind, body, env, st) ==
    LET r == Letrec_loop(bind, 1, Len(st.frames) + 1,
                         LetrecProbe(bind, env, Len(st.frames) + 1,
                                     NewEnv(env, st))) IN
    IF ~r.ok THEN r
    ELSE Begin_eval(body, Len(st.frames) + 1, r.st)

Set_eval(var, e, env, st) ==
    LET r == Eval(e, env, st) IN
    IF ~r.ok THEN r
    ELSE Observe("set", var, env, r.v, r.st, modify(var, r.v, env, r.st))

\* The names of a list of Var terms, from Vars[i] on (the lambda SList::eval
\* gives std::transform): the names in the field names, or the error thrown
\* at the first term that is not a Var in the field v.
ParseNames(Vars, i, acc) ==
    IF i > Len(Vars) THEN [v |-> NullHandle, names |-> acc, ok |-> TRUE]
    ELSE IF Vars[i].t # "E_VAR"
    THEN [v |-> RuntimeError("lambda parameter is not Var"), names |-> acc,
          ok |-> FALSE]
    ELSE ParseNames(Vars, i + 1, Append(acc, Vars[i].x))

\* The (name, initializer) pairs of a let or letrec binding list, likewise.
ParseBindings(pairs, i, acc, msg) ==
    IF i > Len(pairs) THEN [v |-> NullHandle, bind |-> acc, ok |-> TRUE]
    ELSE IF /\ pairs[i].t = "E_SLIST"
            /\ Len(pairs[i].terms) = 2
            /\ pairs[i].terms[1].t = "E_VAR"
    THEN ParseBindings(pairs, i + 1,
             Append(acc, <<pairs[i].terms[1].x, pairs[i].terms[2]>>), msg)
    ELSE [v |-> RuntimeError(msg), bind |-> acc, ok |-> FALSE]

Wrong(what, st) ==
    Throw(RuntimeError("Wrong number of arguments for " \o what), st)

\* SList::eval, case E_LAMBDA.
SList_lambda(rand, env, st) ==
    IF Len(rand) < 2 THEN Wrong("lambda", st)
    ELSE IF rand[1].t # "E_SLIST"
    THEN Throw(RuntimeError("lambda takes a list as the 1st parameter"), st)
    ELSE LET paras == ParseNames(rand[1].terms, 1, <<>>) IN
         IF ~paras.ok THEN Throw(paras.v, st)
         ELSE Lambda_eval(paras.names, BeginE(Tail(rand)), env, st)

\* SList::eval, case E_DEFINE.  rand[0] of an empty rand, Vars[0] of an empty
\* list and rand[1] of a one-element rand are reads out of bounds.
SList_define(rand, env, st) ==
    IF Len(rand) = 2 /\ rand[1].t = "E_VAR"
    THEN Define_eval(rand[1].x, rand[2], env, st)
    ELSE IF Len(rand) = 0 THEN Throw(Crash, st)
    ELSE IF rand[1].t # "E_SLIST"
    THEN Throw(RuntimeError("define takes a Var or list as the 1st parameter"), st)
    ELSE LET Vars == rand[1].terms IN
         IF Len(Vars) = 0 THEN Throw(Crash, st)
         ELSE IF Vars[1].t # "E_VAR"
         THEN Throw(RuntimeError("lambda name is not Var"), st)
         ELSE LET paras == ParseNames(Vars, 2, <<>>) IN
              IF ~paras.ok THEN Throw(paras.v, st)
              ELSE IF Len(rand) < 2 THEN Throw(Crash, st)
              ELSE Define_f_eval(Vars[1].x, paras.names, Tail(rand), env, st)

\* SList::eval, cases E_LET and E_LETREC.
SList_let(type, rand, env, st) ==
    IF Len(rand) < 2 THEN Wrong("let", st)
    ELSE IF rand[1].t # "E_SLIST"
    THEN Throw(RuntimeError("let takes a list as the 1st parameter"), st)
    ELSE LET result0 == ParseBindings(rand[1].terms, 1, <<>>,
                            IF type = "E_LET"
                            THEN "Wrong form of arguments for let"
                            ELSE "Wrong form of arguments for letrec") IN
         IF ~result0.ok THEN Throw(result0.v, st)
         ELSE IF type = "E_LET" THEN Let_eval(result0.bind, Tail(rand), env, st)
         ELSE Letrec_eval(result0.bind, Tail(rand), env, st)

\* SList::eval, the head: terms[0] of an empty list is out of bounds.
SList_head(terms, env, st) ==
    IF terms = <<>> THEN Throw(Crash, st) ELSE Eval(terms[1], env, st)

\* The head gave the tag of a primitive that is one of types.
Primitive(r0, types) == r0.v.t = "E_PRIMITIVE" /\ r0.v.type \in types

\* The head gave the tag of the special form type.
SpecialForm(r0, type) == r0.v.t = "E_SPECIALFORM" /\ r0.v.type = type

\* SList::eval once the head has given r0: a closure gets its arguments
\* evaluated in the caller's environment and is applied; the tag of a
\* primitive or of a special form is dispatched by the two switches, on the
\* unevaluated operands rand.
SList_eval(r0, rand, env) ==
    CASE r0.v.t = "E_PROC" ->
           Apply_eval(r0.v, EvalArgs(rand, Len(rand), env, r0.st), env)
      [] Primitive(r0, {"E_PLUS", "E_MUL", "E_LT", "E_LE", "E_EQ", "E_GE",
                        "E_GT", "E_LIST"}) ->
           Variadic_eval(r0.v.type, EvalArgs(rand, Len(rand), env, r0.st))
      [] Primitive(r0, {"E_MINUS", "E_DIV"}) /\ Len(rand) >= 1 ->
           Variadic_eval(r0.v.type, EvalArgs(rand, Len(rand), env, r0.st))
      [] Primitive(r0, {"E_MINUS", "E_DIV"}) /\ Len(rand) < 1 ->
           Wrong("- or /", r0.st)
      [] Primitive(r0, {"E_MODULO", "E_EXPT", "E_CONS", "E_SETCAR",
                        "E_SETCDR", "E_EQQ"}) ->
           IF Len(rand) = 2
           THEN Binary_eval(r0.v.type, rand[1], rand[2], env, r0.st)
           ELSE Wrong("a binary operator", r0.st)
      [] Primitive(r0, {"E_NOT", "E_CAR", "E_CDR", "E_DISPLAY", "E_BOOLQ",
                        "E_INTQ", "E_NULLQ", "E_PAIRQ", "E_PROCQ", "E_SYMBOLQ",
                        "E_LISTQ", "E_STRINGQ"}) ->
           IF Len(rand) = 1
           THEN Unary_eval(r0.v.type, Eval(rand[1], env, r0.st))
           ELSE Wrong("a unary operator", r0.st)
      [] Primitive(r0, {"E_AND"}) -> AndVar_eval(rand, env, r0.st)
      [] Primitive(r0, {"E_OR"}) -> OrVar_eval(rand, env, r0.st)
      [] Primitive(r0, {"E_VOID"}) ->
           IF Len(rand) = 0 THEN Ret(MakeVoidE, r0.st) ELSE Wrong("void", r0.st)
      [] Primitive(r0, {"E_EXIT"}) ->
           IF Len(rand) = 0 THEN Ret(ExitE, r0.st) ELSE Wrong("exit", r0.st)
      [] SpecialForm(r0, "E_IF") /\ Len(rand) = 3 ->
           If_eval(Eval(rand[1], env, r0.st), rand[2], rand[3], env)
      [] SpecialForm(r0, "E_IF") /\ Len(rand) # 3 -> Wrong("if", r0.st)
      [] SpecialForm(r0, "E_BEGIN") -> Begin_eval(rand, env, r0.st)
      [] SpecialForm(r0, "E_QUOTE") ->
           IF Len(rand) = 1 THEN Quoted(rand[1], r0.st)
           ELSE Wrong("quote", r0.st)
      [] SpecialForm(r0, "E_COND") -> Cond_eval(rand, env, r0.st)
      [] SpecialForm(r0, "E_LAMBDA") -> SList_lambda(rand, env, r0.st)
      [] SpecialForm(r0, "E_DEFINE") -> SList_define(rand, env, r0.st)
      [] SpecialForm(r0, "E_LET") -> SList_let("E_LET", rand, env, r0.st)
      [] SpecialForm(r0, "E_LETREC") -> SList_let("E_LETREC", rand, env, r0.st)
      [] SpecialForm(r0, "E_SET") ->
           IF Len(rand) # 2 THEN Wrong("set!", r0.st)
           ELSE IF rand[1].t = "E_VAR"
           THEN Set_eval(rand[1].x, rand[2], env, r0.st)
           ELSE Throw(RuntimeError("Unknown reserved word"), r0.st)
      [] r0.v.t \in {"error", "crash"} -> r0
      [] r0.v.t = "nullptr" -> Throw(Crash, r0.st)
      [] OTHER -> Throw(RuntimeError("Attempt to apply a non-procedure"), r0.st)

\* The virtual eval: Var, SList and Begin have their own, every other class
\* is self_evaluating and returns itself.
Eval(e, env, st) ==
    CASE e.t = "E_SLIST" ->
           SList_eval(SList_head(e.terms, env, st),
                      IF e.terms = <<>> THEN <<>> ELSE Tail(e.terms), env)
      [] e.t = "E_VAR" -> Var_eval(e.x, env, st)
      [] e.t = "E_BEGIN" -> Begin_eval(e.es, env, st)
      [] OTHER -> Ret(e, st)

(***************************************************************************)
(* The inputs the loop reads, as the parser hands them over: List::parse   *)
(* makes an SList of the parsed elements, a symbol a Var, a number a       *)
(* Fixnum.                                                                 *)
(***************************************************************************)
L2(a, b) == SListE(<<a, b>>)
L3(a, b, c) == SListE(<<a, b, c>>)
L4(a, b, c, d) == SListE(<<a, b, c, d>>)
S(x) == VarE(x)
N(n) == FixnumE(n)
NoArgs == SListE(<<>>)
Call0(f) == SListE(<<S(f)>>)

\* (define (fact n) (if (= n 0) 1 (* n (fact (- n 1)))))
DefFact ==
    L3(S("define"), L2(S("fact"), S("n")),
       L4(S("if"), L3(S("="), S("n"), N(0)), N(1),
          L3(S("*"), S("n"), L2(S("fact"), L3(S("-"), S("n"), N(1))))))

\* (letrec ((f (lambda () (g))) (g (lambda () 5))) (f)), and with let.
MutualBody(form) ==
    L3(S(form),
       L2(L2(S("f"), L3(S("lambda"), NoArgs, Call0("g"))),
          L2(S("g"), L3(S("lambda"), NoArgs, N(5)))),
       Call0("f"))

\* (define getx (lambda (y) x)) and (getx 0): a closure reading the free
\* variable x of the frame it was made in.
DefGetx == L3(S("define"), S("getx"), L3(S("lambda"), SListE(<<S("y")>>), S("x")))
CallGetx == L2(S("getx"), N(0))

\* (set! z 1) and (let ((y 10)) (set! z y)): z is never defined.
SetZ == L3(S("set!"), S("z"), N(1))
LetSetZ == L3(S("let"), SListE(<<L2(S("y"), N(10))>>), L3(S("set!"), S("z"), S("y")))

\* (let ((x 5) (y x)) (cons y (getx 0)))
LetXY ==
    L3(S("let"), L2(L2(S("x"), N(5)), L2(S("y"), S("x"))),
       L3(S("cons"), S("y"), CallGetx))

\* (let ((n 1)) (let ((get (lambda () n))) (set! n 2) (get)))
LetGet ==
    L3(S("let"), SListE(<<L2(S("n"), N(1))>>),
       L4(S("let"), SListE(<<L2(S("get"), L3(S("lambda"), NoArgs, S("n")))>>),
          L3(S("set!"), S("n"), N(2)), Call0("get")))

\* ((lambda (a) (set! x a)) 4) and ((lambda (a) (define x 8) x) 0)
CallSetX == L2(L3(S("lambda"), SListE(<<S("a")>>), L3(S("set!"), S("x"), S("a"))), N(4))
CallDefineX ==
    L2(L4(S("lambda"), SListE(<<S("a")>>), L3(S("define"), S("x"), N(8)), S("x")), N(0))

\* (let ((x 5)) (define x 6) (define w 7) x)
LetDefineX ==
    SListE(<<S("let"), SListE(<<L2(S("x"), N(5))>>), L3(S("define"), S("x"), N(6)),
             L3(S("define"), S("w"), N(7)), S("x")>>)

\* What is typed in a session on environments and closures.
\* The same with g listed before f.
MutualBodyRev(form) ==
    L3(S(form),
       L2(L2(S("g"), L3(S("lambda"), NoArgs, N(5))),
          L2(S("f"), L3(S("lambda"), NoArgs, Call0("g")))),
       Call0("f"))

Inputs ==
    { L3(S("define"), S("x"), N(1)),
      L3(S("define"), S("x"), N(2)),
      L3(S("set!"), S("x"), N(3)),
      DefGetx, CallGetx, SetZ, LetSetZ, LetXY, LetGet, CallSetX, CallDefineX,
      LetDefineX, S("z"), Call0("exit") }

\* (letrec ((a x) (x 7)) a): the first initializer reads a later name.
LetrecAX == L3(S("letrec"), L2(L2(S("a"), S("x")), L2(S("x"), N(7))), S("a"))

\* ((lambda (a) (define (loop k) (if (= k 0) a (loop (- k 1)))) (loop 2)) 7)
CallLoop ==
    L2(L4(S("lambda"), SListE(<<S("a")>>),
          L3(S("define"), L2(S("loop"), S("k")),
             L4(S("if"), L3(S("="), S("k"), N(0)), S("a"),
                L2(S("loop"), L3(S("-"), S("k"), N(1))))),
          L2(S("loop"), N(2))),
       N(7))

\* What is typed in a session on recursive definitions.
Fact5 == L2(S("fact"), N(5))

RecInputs ==
    { DefFact, Fact5, L2(S("fact"), N(0)), CallLoop,
      MutualBody("letrec"), MutualBody("let"),
      MutualBodyRev("letrec"), MutualBodyRev("let"),
      L3(S("define"), Call0("g"), N(9)),
      L3(S("define"), S("x"), N(1)), LetrecAX, S("fact") }

\* (set-car! p 9)
SetCarP == L3(S("set-car!"), S("p"), N(9))

\* What is typed in a session on pairs.
PairInputs ==
    { L3(S("define"), S("p"), L3(S("cons"), N(1), N(2))),
      L3(S("define"), S("q"), L3(S("cons"), N(0), S("p"))),
      L3(S("define"), S("r"), S("p")),
      SetCarP,
      L3(S("set-cdr!"), S("r"), N(8)),
      L3(S("set-cdr!"), L2(S("cdr"), S("q")), N(7)),
      L3(S("set-car!"), S("q"), S("q")),
      L3(S("set-car!"), N(1), N(2)),
      L2(S("car"), S("p")), L2(S("cdr"), S("r")),
      L2(S("car"), L2(S("cdr"), S("q"))),
      L2(S("cdr"), L2(S("cdr"), S("q"))) }

\* (let ((if (lambda (a b) b))) (if 1 2)) and (let ((cdr 5)) (cdr 1))
LetIf ==
    L3(S("let"),
       SListE(<<L2(S("if"), L3(S("lambda"), SListE(<<S("a"), S("b")>>), S("b")))>>),
       L3(S("if"), N(1), N(2)))
LetCdr == L3(S("let"), SListE(<<L2(S("cdr"), N(5))>>), L2(S("cdr"), N(1)))

\* (car (cons 1 2))
CarCons == L2(S("car"), L3(S("cons"), N(1), N(2)))

\* What is typed in a session on names that are also primitives or
\* special forms.
NameInputs ==
    { S("car"), S("if"), S("z"), S("y"),
      L3(S("define"), S("z"), N(4)),
      L3(S("define"), L2(S("car"), S("v")), N(7)),
      L3(S("define"), S("car"), L2(S("display"), N(1))),
      L3(S("define"), S("y"), L2(S("display"), N(1))),
      L3(S("define"), S("if"), L3(S("lambda"), SListE(<<S("a"), S("b")>>), S("b"))),
      CarCons, L3(S("if"), N(1), N(2)), L4(S("if"), N(1), N(2), N(3)),
      LetIf, LetCdr }

(***************************************************************************)
(* The read-eval-print loop: main.cpp, REPL.                               *)
(***************************************************************************)
\* (define (f a ...) (set! n 9) 5) with k parameters, and (f 1 ... j).
DefF(k) ==
    L4(S("define"), SListE(<<S("f")>> \o SubSeq(<<S("a"), S("b")>>, 1, k)),
       L3(S("set!"), S("n"), N(9)), N(5))

CallF(j) == SListE(<<S("f")>> \o [i \in 1..j |-> N(i)])

ArityInputs ==
    {L3(S("define"), S("n"), N(0))}
        \cup {DefF(k) : k \in 0..2} \cup {CallF(j) : j \in 0..MaxArgs}

\* The clauses (#f) (7) (#f (define p 3) 1) (7 (define q 3) 2) and
\* (else 9), and the cond forms of up to MaxClauses of them in which else
\* comes last if at all.
CondClauses ==
    {SListE(<<BooleanE(FALSE)>>), SListE(<<N(7)>>),
     L3(BooleanE(FALSE), L3(S("define"), S("p"), N(3)), N(1)),
     L3(N(7), L3(S("define"), S("q"), N(3)), N(2))}

ElseClause == L2(S("else"), N(9))

CondForms ==
    UNION {{SListE(<<S("cond")>> \o cs) :
              cs \in {c \in [1..k -> CondClauses \cup {ElseClause}] :
                         \A i \in 1..(k - 1) : c[i] # ElseClause}} :
           k \in 1..MaxClauses}

CondInputs == CondForms \cup {L3(S("define"), S("else"), BooleanE(FALSE))}

\* (begin (define p 3) 8): an operand that leaves a trace when evaluated.
Traced == L3(S("begin"), L3(S("define"), S("p"), N(3)), N(8))

Operands == {BooleanE(FALSE), N(7), Traced}

\* (and e ...) and (or e ...) of up to MaxOperands operands.
AndOrInputs ==
    UNION {{SListE(<<S(op)>> \o es) : es \in [1..k -> Operands]} :
           op \in {"and", "or"}, k \in 0..MaxOperands}

\* RationalSyntax::parse: the literal n/d is RationalNum(n, d).
R(n, d) == RationalNum(n, d)

\* The integers and the rational literals the numeric inputs are made of:
\* the small ones and those at the ends of the range of int.
Ints == (-MaxNum..MaxNum) \cup {INT_MIN, INT_MIN + 1, INT_MAX - 1, INT_MAX}

Rats == {R(n, d) : n \in -MaxNum..MaxNum, d \in 1..MaxNum}

Nums == {N(i) : i \in Ints} \cup Rats

\* (op a b) for the four arithmetic operators.
ArithInputs ==
    {L3(S(op), a, b) : op \in {"+", "-", "*", "/"}, a \in Nums, b \in Nums}

\* The whole numbers written as integers, as rational literals (4/2 is read
\* as R(4, 2)) and as arithmetic on rational literals, under the integer
\* predicate and under eq? with an integer.
WholeForms ==
    {N(k) : k \in -MaxNum..MaxNum}
        \cup {x \in Rats : x.denominator = 1}
        \cup {x \in ArithInputs :
                 /\ x.terms[2] \in Rats /\ x.terms[3] \in Rats
                 /\ (x.terms[1].x = "/" => x.terms[3].numerator # 0)}

WholeInputs ==
    {L2(S("number?"), x) : x \in WholeForms}
        \cup {L3(S("eq?"), x, N(k)) : x \in WholeForms, k \in -MaxNum..MaxNum}

\* (expt a b) for the bases up to above the square root of INT_MAX and
\* those at the ends of the range of int, and the exponents from below 0 to
\* above the width of int, and the largest one.
ExptInputs ==
    {L3(S("expt"), N(a), N(b)) :
        a \in Ints \cup (-Pow2Tab[IntBits \div 2]..Pow2Tab[IntBits \div 2]),
        b \in (-2..(IntBits + 1)) \cup {INT_MAX}}

\* (op x ...) with k operands of the set pool.
Forms(ops, pool, k) ==
    {SListE(<<S(op)>> \o xs) : op \in ops, xs \in [1..k -> pool]}

Relations == {"<", "<=", "=", ">=", ">"}

\* The chained comparisons of up to MaxChain numbers, integers and rationals
\* mixed.
CompareInputs ==
    UNION {Forms(Relations,
                 {N(-1), N(1), N(INT_MAX), R(1, 2), R(1, 1), R(-3, 2)}, k) :
           k \in 0..MaxChain}

\* A string, a boolean, a pair and a procedure; and the arithmetic and
\* comparison operators on up to MaxChain operands that are one of these or a
\* number.
NonNumbers ==
    {StringExprE("s"), BooleanE(TRUE), L3(S("cons"), N(1), N(2)),
     L3(S("lambda"), SListE(<<S("x")>>), S("x"))}

TypeInputs ==
    UNION {Forms(Relations \cup {"+", "-", "*", "/"},
                 NonNumbers \cup {N(2), R(1, 2)}, k) : k \in 1..MaxChain}

\* The divisions of up to MaxChain numbers, zero among them as the integer 0
\* and as the rational 0/1, and (modulo a 0).
DivInputs ==
    UNION {Forms({"/"}, {N(0), R(0, 1), N(1), N(-3), R(1, 2), N(INT_MAX),
                         N(INT_MIN)}, k) : k \in 1..MaxChain}
        \cup {L3(S("modulo"), N(a), N(0)) : a \in Ints}

OperatorInputs == CompareInputs \cup TypeInputs \cup DivInputs

\* The expressions whose evaluation gives the absent result: a define, a
\* set!, a set-car!, a display, an empty begin and a cond without a matching
\* clause.
Absent ==
    {L3(S("define"), S("d"), N(1)), L3(S("set!"), S("d"), N(2)),
     L3(S("set-car!"), S("p"), N(3)), L2(S("display"), N(1)),
     SListE(<<S("begin")>>), L2(S("cond"), L2(BooleanE(FALSE), N(1)))}

\* What is typed in a session that makes and changes pairs with such an
\* operand.
CellInputs ==
    {L3(S("define"), S("p"), L3(S("cons"), N(1), N(2))),
     L3(S("define"), S("d"), N(0)),
     L2(S("quote"), L2(N(1), N(2)))}
        \cup {L3(S("cons"), a, N(1)) : a \in Absent}
        \cup {L3(S("cons"), N(1), a) : a \in Absent}
        \cup {L3(S("list"), N(1), a) : a \in Absent}
        \cup {L3(S("set-car!"), S("p"), a) : a \in Absent}
        \cup {L3(S("set-cdr!"), S("p"), a) : a \in Absent}

\* (begin (car 1) (define w 5)): an error before a definition, and
\* (begin (define y 2) (set-car! p 9) (set! x 7) (car 1)): an error after a
\* definition, a change of a pair and an assignment.
ErrFirst ==
    L3(S("begin"), L2(S("car"), N(1)), L3(S("define"), S("w"), N(5)))

ErrLast ==
    SListE(<<S("begin"), L3(S("define"), S("y"), N(2)),
             L3(S("set-car!"), S("p"), N(9)), L3(S("set!"), S("x"), N(7)),
             L2(S("car"), N(1))>>)

\* What is typed in a session with failing inputs: definitions, reads, the
\* two above, an unbound name, car of the absent result and (exit).
LoopInputs ==
    {L3(S("define"), S("x"), N(1)),
     L3(S("define"), S("p"), L3(S("cons"), N(1), N(2))),
     S("x"), S("y"), L2(S("car"), S("p")), S("z"), ErrFirst, ErrLast,
     L2(S("car"), L2(S("display"), N(1))), Call0("exit")}

\* ((lambda (x y) 1) 1 2) and (define (f x y) 1) for parameter names x, y.
CallLambda(x, y) == L3(L3(S("lambda"), L2(S(x), S(y)), N(1)), N(1), N(2))

DefineF(f, x, y) == L3(S("define"), L3(S(f), S(x), S(y)), N(1))

\* Names as they are typed: well-formed ones and ones that start with '@',
\* '.' or a digit or hold '#'.
TypedNames == {"a", "b", "@a", ".b", "1a", "a#"}

\* Forms that introduce bindings, with well-formed, ill-formed and repeated
\* names: define, function define, lambda and its call, let and letrec.
BindInputs ==
    {L3(S("define"), S(x), N(1)) : x \in TypedNames}
        \cup {DefineF("f", "a", x) : x \in {"b", "@a", "a"}}
        \cup {DefineF(".b", "a", "b"), L3(S("f"), N(1), N(2))}
        \cup {CallLambda("a", x) : x \in {"b", "1a", "a"}}
        \cup {L3(S("lambda"), L2(S("a"), S(x)), N(1)) : x \in {"b", "a"}}
        \cup {L3(S(l), SListE(<<L2(S(x), N(1))>>), N(2)) :
                 l \in {"let", "letrec"}, x \in {"a", "a#"}}

\* The elements of quoted lists: a symbol, a number, (), (a b) and (a . b).
Items ==
    {S("a"), N(1), NoArgs, L2(S("a"), S("b")), L3(S("a"), S("."), S("b"))}

\* Literal lists of up to MaxItems elements, and the same followed by a dot
\* and one more element; and lists with a dot that is not second to last.
Literals ==
    UNION {{SListE(t) : t \in [1..n -> Items]} : n \in 0..MaxItems}
        \cup UNION {{SListE(t \o <<S("."), x>>) : t \in [1..n -> Items], x \in Items} :
                    n \in 1..MaxItems - 1}
        \cup {L2(S("."), S("a")), L2(S("a"), S(".")),
              L4(S("a"), S("."), S("b"), S("a"))}

\* (quote l) for every literal list l.
QuoteInputs == {L2(S("quote"), l) : l \in Literals}

\* (let ((x 5)) (let ((y 0)) (set! x (+ x 1)) x))
SetShadow ==
    L3(S("let"), SListE(<<L2(S("x"), N(5))>>),
       L4(S("let"), SListE(<<L2(S("y"), N(0))>>),
          L3(S("set!"), S("x"), L3(S("+"), S("x"), N(1))), S("x")))

\* (define (h x) (set! x (+ x 1)) x) and (h 10)
DefH ==
    L4(S("define"), L2(S("h"), S("x")),
       L3(S("set!"), S("x"), L3(S("+"), S("x"), N(1))), S("x"))

CallH == L2(S("h"), N(10))

\* (define (mk a) (define loc a) (lambda () loc)), (define c1 (mk 1)),
\* (define c2 (mk 2)), (c1) and (c2).
DefMk ==
    L4(S("define"), L2(S("mk"), S("a")), L3(S("define"), S("loc"), S("a")),
       L3(S("lambda"), NoArgs, S("loc")))

CName(k) == IF k = 1 THEN "c1" ELSE "c2"
DefC(k) == L3(S("define"), S(CName(k)), L2(S("mk"), N(k)))
CallC(k) == Call0(CName(k))

\* (begin (define c1 (mk 1)) (define c2 (mk 2)))
DefBoth == L3(S("begin"), DefC(1), DefC(2))

\* What is typed in a session on frames: a name bound in several frames and
\* assigned, and calls whose bodies define names.
ScopeInputs ==
    {L3(S("define"), S("x"), N(1)), L3(S("set!"), S("x"), N(3)), S("x"),
     SetShadow, DefH, CallH, DefMk, DefBoth, S("a"), S("loc")}
        \cup {DefC(k) : k \in 1..2} \cup {CallC(k) : k \in 1..2}

\* (begin (set! t (cons k t)) e): an operand that notes k in the list t when
\* it is evaluated, and has the value of e.
Mark(k, e) ==
    L3(S("begin"), L3(S("set!"), S("t"), L3(S("cons"), N(k), S("t"))), e)

\* (op m1 m2) for the binary operators, the first operand a pair for
\* set-car! and set-cdr!.
BinaryForms ==
    {L3(S(op), Mark(1, N(7)), Mark(2, N(2))) : op \in {"cons", "modulo", "expt", "eq?"}}
        \cup {L3(S(op), Mark(1, L3(S("cons"), N(0), N(0))), Mark(2, N(5))) :
                 op \in {"set-car!", "set-cdr!"}}

\* (op m1 m2 m3) for variadic operators.
VariadicForms ==
    {L4(S(op), Mark(1, N(7)), Mark(2, N(2)), Mark(3, N(1))) : op \in {"+", "list", "<"}}

\* (m0 m1 ... mj): a call whose head, noted 0, gives a closure of two
\* parameters, with j arguments.
CallForms ==
    {SListE(<<Mark(0, L3(S("lambda"), L2(S("a"), S("b")), S("b")))>>
            \o [i \in 1..j |-> Mark(i, N(i + 4))]) : j \in 1..MaxArgs}

\* What is typed in a session on the order of evaluation.
OrderInputs ==
    {L3(S("define"), S("t"), N(0)), S("t")}
        \cup BinaryForms \cup VariadicForms \cup CallForms

EmptyProbe ==
    [define |-> <<>>, set |-> <<>>, apply |-> <<>>, let |-> <<>>,
     letrec |-> <<>>, pair |-> <<>>]

\* The frame every input is evaluated in.
global_env == 1

Init ==
    /\ frames = <<Env(0)>>
    /\ cells = <<>>
    /\ probe = EmptyProbe
    /\ val = NullHandle
    /\ input = NullHandle
    /\ prev = [frames |-> <<Env(0)>>, cells |-> <<>>]
    /\ nInputs = 0
    /\ running = TRUE
    /\ argOrder \in {"left-first", "right-first"}
    /\ divOverflow \in {"trap", "wrap"}

\* A turn of the loop that undoes what an input did when it ends in an error.
REPL_eval_undo(r) ==
    /\ frames' = IF r.v.t = "error" THEN frames ELSE r.st.frames
    /\ cells' = IF r.v.t = "error" THEN cells ELSE r.st.cells
    /\ probe' = r.st.probe
    /\ val' = r.v
    /\ running' = (r.v.t \notin {"E_EXIT", "crash"})

\* One turn of the loop: read, parse, eval, print.  A RuntimeError is
\* caught and the loop goes on; the exit value ends it.
REPL_eval(r) ==
    /\ frames' = r.st.frames
    /\ cells' = r.st.cells
    /\ probe' = r.st.probe
    /\ val' = r.v
    /\ running' = (r.v.t \notin {"E_EXIT", "crash"})

REPL(stx) ==
    /\ running
    /\ nInputs < MaxInputs
    /\ REPL_eval(Eval(stx, global_env,
                      [frames |-> frames, cells |-> cells, probe |-> EmptyProbe]))
    /\ input' = stx
    /\ prev' = [frames |-> frames, cells |-> cells]
    /\ nInputs' = nInputs + 1
    /\ UNCHANGED <<argOrder, divOverflow>>

Next == \E stx \in Inputs : REPL(stx)

Spec == Init /\ [][Next]_vars

NextRec == \E stx \in RecInputs : REPL(stx)

SpecRec == Init /\ [][NextRec]_vars

NextPairs == \E stx \in PairInputs : REPL(stx)

SpecPairs == Init /\ [][NextPairs]_vars

NextNames == \E stx \in NameInputs : REPL(stx)

SpecNames == Init /\ [][NextNames]_vars

NextArity == \E stx \in ArityInputs : REPL(stx)

SpecArity == Init /\ [][NextArity]_vars

NextCond == \E stx \in CondInputs : REPL(stx)

SpecCond == Init /\ [][NextCond]_vars

NextAndOr == \E stx \in AndOrInputs : REPL(stx)

SpecAndOr == Init /\ [][NextAndOr]_vars

\* The numeric forms are read as the first input of a run.
NextArith == nInputs = 0 /\ \E stx \in ArithInputs : REPL(stx)

SpecArith == Init /\ [][NextArith]_vars

NextWhole == nInputs = 0 /\ \E stx \in WholeInputs : REPL(stx)

SpecWhole == Init /\ [][NextWhole]_vars

NextExpt == nInputs = 0 /\ \E stx \in ExptInputs : REPL(stx)

SpecExpt == Init /\ [][NextExpt]_vars

NextOperators == nInputs = 0 /\ \E stx \in OperatorInputs : REPL(stx)

SpecOperators == Init /\ [][NextOperators]_vars

NextCells == \E stx \in CellInputs : REPL(stx)

SpecCells == Init /\ [][NextCells]_vars

NextLoop == \E stx \in LoopInputs : REPL(stx)

SpecLoop == Init /\ [][NextLoop]_vars

NextBind == \E stx \in BindInputs : REPL(stx)

SpecBind == Init /\ [][NextBind]_vars

NextQuote == nInputs = 0 /\ \E stx \in QuoteInputs : REPL(stx)

SpecQuote == Init /\ [][NextQuote]_vars

NextScope == \E stx \in ScopeInputs : REPL(stx)

SpecScope == Init /\ [][NextScope]_vars

NextOrder == \E stx \in OrderInputs : REPL(stx)

SpecOrder == Init /\ [][NextOrder]_vars

(***************************************************************************)
(* Properties.                                                             *)
(***************************************************************************)
\* The frames of the chain that starts at env, in the heap fr.
Chain(env, fr) == IF env = 0 THEN {} ELSE {env} \cup Chain(fr[env].parent, fr)

\* x is bound in no frame of the chain that starts at env.
Unbound(x, env, fr) == \A f \in Chain(env, fr) : x \notin DOMAIN fr[f].bindings

UnboundAssignment == RuntimeError("try to set! a non-existent var")
UnboundVariable == RuntimeError("undefined variable")

\* C1: when (set! name expr) is evaluated in a chain none of whose frames
\* binds name, the input fails with the unbound-assignment error, no frame of
\* the chain contains name afterwards, and every frame of the heap has exactly
\* the bindings and values it had once expr was evaluated.
C1_SetUnboundFails ==
    (/\ probe.set # <<>>
     /\ Unbound(probe.set.var, probe.set.env, probe.set.before))
    => /\ val = UnboundAssignment
       /\ ~probe.set.ok
       /\ frames = probe.set.before
       /\ Unbound(probe.set.var, probe.set.env, frames)

\* A set! of the undefined z from inside a let body, two frames deep, failed.
C1_Witness ==
    /\ input = LetSetZ
    /\ probe.set # <<>>
    /\ probe.set.var = "z"
    /\ Cardinality(Chain(probe.set.env, frames)) = 2
    /\ probe.set.value = N(10)
    /\ val = UnboundAssignment

\* The value a lookup of x in frame f of the heap fr gives.
Lookup(x, f, fr) ==
    IF x \in DOMAIN fr[f].bindings THEN fr[f].bindings[x] ELSE UnboundVariable

\* C2: a closure reads its free variables in the frame it captured as that
\* frame is now.  getx, made at top level by (lambda (y) x), returns the
\* value x has in the global frame when it is called (or fails when x is
\* still unbound there), whatever define and set! did since it was made;
\* get, made in a let frame while n was 1, returns the 2 a later set! wrote.
C2_ClosureSeesMutation ==
    /\ (input = CallGetx /\ "getx" \in DOMAIN prev.frames[global_env].bindings)
       => val = Lookup("x", global_env, frames)
    /\ input = LetGet => val = N(2)

\* get was called after (set! n 2) and returned the new value of n, which
\* is in the frame it captured.
C2_Witness ==
    /\ input = LetGet
    /\ val = N(2)
    /\ probe.set # <<>>
    /\ probe.set.var = "n"
    /\ probe.apply # <<>>
    /\ probe.apply.proc.env \in Chain(probe.set.env, frames)
    /\ frames[probe.apply.proc.env].bindings["n"] = N(2)

\* The field of a cell that set-car! ("car") or set-cdr! ("cdr") writes,
\* and the one it does not.
Field(cell, field) == IF field = "car" THEN cell.car ELSE cell.cdr
OtherField(cell, field) == IF field = "car" THEN cell.cdr ELSE cell.car

\* What car or cdr gives when applied to the pair value v.
Read(v, field) ==
    IF field = "car" THEN Car_evalRator(v, [cells |-> cells])
    ELSE Cdr_evalRator(v, [cells |-> cells])

\* C3: (set-car! p v) and (set-cdr! p v) on a pair return the null handle
\* (the absent result), create no cell, leave the other field of the cell and
\* every other cell as they were, and car (cdr) gives v when read through
\* every global binding and through every pair field that refers to the cell.
C3_SetPairInPlace ==
    (probe.pair # <<>> /\ probe.pair.rand1.t = "E_PAIR")
    => /\ val = NullHandle
       /\ Len(cells) = Len(probe.pair.before)
       /\ \A j \in 1..Len(cells) :
            IF j = probe.pair.rand1.id
            THEN /\ Field(cells[j], probe.pair.field) = probe.pair.rand2
                 /\ OtherField(cells[j], probe.pair.field)
                      = OtherField(probe.pair.before[j], probe.pair.field)
            ELSE cells[j] = probe.pair.before[j]
       /\ \A x \in DOMAIN frames[global_env].bindings :
            frames[global_env].bindings[x] = probe.pair.rand1
            => Read(frames[global_env].bindings[x], probe.pair.field)
                 = probe.pair.rand2
       /\ \A j \in 1..Len(cells) :
            /\ cells[j].car = probe.pair.rand1
               => Read(cells[j].car, probe.pair.field) = probe.pair.rand2
            /\ cells[j].cdr = probe.pair.rand1
               => Read(cells[j].cdr, probe.pair.field) = probe.pair.rand2

\* (set-car! p 9) was done on a cell that p names and that the pair q
\* encloses; its car was 1 and is 9 through both.
C3_Witness ==
    /\ input = SetCarP
    /\ val = NullHandle
    /\ {"p", "q"} \subseteq DOMAIN frames[global_env].bindings
    /\ frames[global_env].bindings["p"].t = "E_PAIR"
    /\ frames[global_env].bindings["q"].t = "E_PAIR"
    /\ cells[frames[global_env].bindings["q"].id].cdr
         = frames[global_env].bindings["p"]
    /\ prev.cells[frames[global_env].bindings["p"].id].car = N(1)
    /\ Read(cells[frames[global_env].bindings["q"].id].cdr, "car") = N(9)
    /\ Read(frames[global_env].bindings["p"], "car") = N(9)

\* C4: the body of an applied closure runs in a frame made for the call,
\* which binds each parameter to its argument and whose parent is the frame
\* the closure captured, not the frame of the caller.  In
\* (let ((x 5) (y x)) (cons y (getx 0))) the call of getx comes from a frame
\* where x is 5, and the free x of getx is still the global one.
C4_ApplyInCapturedChain ==
    /\ probe.apply # <<>>
       => /\ probe.apply.param_env = Len(probe.apply.frames)
          /\ probe.apply.param_env > Len(prev.frames)
          /\ probe.apply.frames[probe.apply.param_env].parent
               = probe.apply.proc.env
          /\ DOMAIN probe.apply.frames[probe.apply.param_env].bindings
               = {probe.apply.proc.parameters[k] :
                    k \in 1..Len(probe.apply.proc.parameters)}
          /\ \A k \in 1..Len(probe.apply.proc.parameters) :
               probe.apply.frames[probe.apply.param_env].bindings[
                   probe.apply.proc.parameters[k]] = probe.apply.rand[k]
    /\ (/\ input = LetXY
        /\ {"x", "getx"} \subseteq DOMAIN prev.frames[global_env].bindings)
       => /\ val.t = "E_PAIR"
          /\ cells[val.id].cdr = frames[global_env].bindings["x"]
          /\ cells[val.id].cdr # N(5)

\* getx was called from the let frame, where x is 5, and returned the
\* global x.
C4_Witness ==
    /\ input = LetXY
    /\ val.t = "E_PAIR"
    /\ probe.apply # <<>>
    /\ probe.apply.caller # probe.apply.proc.env
    /\ probe.apply.frames[probe.apply.caller].bindings["x"] = N(5)
    /\ probe.apply.rand = <<N(0)>>
    /\ cells[val.id].cdr = frames[global_env].bindings["x"]
    /\ cells[val.id].cdr \in {N(1), N(2), N(3), N(4)}

\* C5: (define (f param...) body...) evaluated in frame F binds f in F to a
\* closure whose captured frame is F; in a call of that closure the name
\* resolves to the closure itself (fact at top level, loop defined inside a
\* call), so recursion works: (fact 5) is 120, (fact 0) is 1 and the loop
\* returns the 7 of its enclosing call.
C5_DefineFRecursion ==
    /\ (probe.define # <<>> /\ probe.define.value.t = "E_PROC")
       => /\ probe.define.ok
          /\ probe.define.var \in DOMAIN probe.define.after[probe.define.env].bindings
          /\ probe.define.after[probe.define.env].bindings[probe.define.var]
               = probe.define.value
          /\ probe.define.value.env = probe.define.env
    /\ (/\ probe.apply # <<>>
        /\ "fact" \in DOMAIN frames[global_env].bindings
        /\ probe.apply.proc = frames[global_env].bindings["fact"])
       => find("fact", probe.apply.param_env, probe.apply.frames)
            = probe.apply.proc
    /\ (input = Fact5 /\ "fact" \in DOMAIN prev.frames[global_env].bindings)
       => val = N(120)
    /\ (/\ input = L2(S("fact"), N(0))
        /\ "fact" \in DOMAIN prev.frames[global_env].bindings)
       => val = N(1)
    /\ input = CallLoop
       => /\ val = N(7)
          /\ find("loop", probe.apply.param_env, probe.apply.frames)
               = probe.apply.proc

\* (fact 5) gave 120; its last call was (fact 0), of the closure that fact
\* names in the global frame, which is the frame the closure captured.
C5_Witness ==
    /\ input = Fact5
    /\ val = N(120)
    /\ probe.apply # <<>>
    /\ probe.apply.rand = <<N(0)>>
    /\ probe.apply.proc = frames[global_env].bindings["fact"]
    /\ probe.apply.proc.env = global_env

\* C6: let evaluates its initializers in the outer environment and its
\* body in one new frame, a child of the outer one, that holds exactly the
\* names it binds; the frames that were there keep their names.  In
\* (let ((x 5) (y x)) (cons y (getx 0))) the initializer of y reads the
\* global x, not the 5 of the same let, and fails when there is no global x;
\* no let at top level adds a name to the global frame.
C6_LetOuterScope ==
    /\ probe.let # <<>>
       => /\ probe.let.param_env = Len(probe.let.before) + 1
          /\ probe.let.frames[probe.let.param_env].parent = probe.let.env
          /\ DOMAIN probe.let.frames[probe.let.param_env].bindings
               = {probe.let.bind[k][1] : k \in 1..Len(probe.let.bind)}
          /\ \A f \in 1..Len(probe.let.before) :
               DOMAIN probe.let.frames[f].bindings
                 = DOMAIN probe.let.before[f].bindings
    /\ (input = LetXY /\ "x" \notin DOMAIN prev.frames[global_env].bindings)
       => val = UnboundVariable
    /\ (/\ input = LetXY
        /\ {"x", "getx"} \subseteq DOMAIN prev.frames[global_env].bindings)
       => /\ val.t = "E_PAIR"
          /\ cells[val.id].car = prev.frames[global_env].bindings["x"]
          /\ probe.let.frames[probe.let.param_env].bindings["x"] = N(5)
    /\ input \in {LetXY, LetSetZ, LetGet, LetDefineX}
       => DOMAIN frames[global_env].bindings
            = DOMAIN prev.frames[global_env].bindings

\* In a let that binds x to 5 and y to x, y got the global x, which is not
\* 5, and the global frame has the names it had.
C6_Witness ==
    /\ input = LetXY
    /\ val.t = "E_PAIR"
    /\ probe.let # <<>>
    /\ probe.let.env = global_env
    /\ probe.let.frames[probe.let.param_env].bindings["x"] = N(5)
    /\ probe.let.frames[probe.let.param_env].bindings["y"]
         = prev.frames[global_env].bindings["x"]
    /\ cells[val.id].car \in {N(1), N(2), N(3), N(4)}
    /\ DOMAIN frames[global_env].bindings = {"x", "getx"}

\* C7: (letrec ((f (lambda () (g))) (g (lambda () 5))) (f)) is 5, and so
\* is the program with g listed before f; written with let, either program
\* fails with the unbound-variable error when f calls g (g being a name the
\* enclosing environment does not bind).
C7_LetrecMutual ==
    /\ input \in {MutualBody("letrec"), MutualBodyRev("letrec")} => val = N(5)
    /\ (/\ input \in {MutualBody("let"), MutualBodyRev("let")}
        /\ "g" \notin DOMAIN prev.frames[global_env].bindings)
       => /\ val = UnboundVariable
          /\ probe.apply # <<>>
          /\ probe.apply.proc.e = BeginE(<<Call0("g")>>)

\* The letrec with f listed first gave 5: the last call was of g, whose
\* captured frame binds both f and g.
C7_Witness ==
    /\ input = MutualBody("letrec")
    /\ val = N(5)
    /\ probe.apply # <<>>
    /\ probe.apply.proc.e = BeginE(<<N(5)>>)
    /\ DOMAIN frames[probe.apply.proc.env].bindings = {"f", "g"}
    /\ probe.apply.caller # global_env

\* C8: when letrec evaluates an initializer, the new frame already binds
\* every name of the block; in (letrec ((a x) (x 7)) a) the initializer of a
\* finds the later name x in the new frame: it is not reported unbound and
\* does not get the value of a global x.
C8_LetrecNamesPresent ==
    /\ probe.letrec # <<>>
       => \A k \in 1..Len(probe.letrec.bind) :
            probe.letrec.bind[k][1]
              \in DOMAIN probe.letrec.frames[probe.letrec.param_env].bindings
    /\ input = LetrecAX
       => /\ val # UnboundVariable
          /\ "x" \in DOMAIN prev.frames[global_env].bindings
             => val # prev.frames[global_env].bindings["x"]

\* C9: define binds its name in the frame it is evaluated in, and nowhere
\* else: no frame is created, the frame has the names it had and the defined
\* one, its other bindings keep their values, and every other frame (the
\* ancestors, which may bind the same name) is as it was.  The define of x
\* inside a call or a let body leaves the global x alone.
C9_DefineInPlace ==
    /\ probe.define # <<>>
       => /\ probe.define.ok
          /\ Len(probe.define.after) = Len(probe.define.before)
          /\ DOMAIN probe.define.after[probe.define.env].bindings
               = DOMAIN probe.define.before[probe.define.env].bindings
                   \cup {probe.define.var}
          /\ probe.define.after[probe.define.env].bindings[probe.define.var]
               = probe.define.value
          /\ \A y \in DOMAIN probe.define.before[probe.define.env].bindings
                        \ {probe.define.var} :
               probe.define.after[probe.define.env].bindings[y]
                 = probe.define.before[probe.define.env].bindings[y]
          /\ \A f \in 1..Len(probe.define.before) :
               f # probe.define.env
               => probe.define.after[f] = probe.define.before[f]
    /\ input = CallDefineX
       => val = N(8) /\ frames[global_env] = prev.frames[global_env]
    /\ input = LetDefineX
       => val = N(6) /\ frames[global_env] = prev.frames[global_env]

\* x was defined as 8 in the frame of a call while the global frame, its
\* parent, binds x to another value, and still does.
C9_Witness ==
    /\ input = CallDefineX
    /\ val = N(8)
    /\ probe.define # <<>>
    /\ probe.define.env # global_env
    /\ frames[probe.define.env].parent = global_env
    /\ frames[probe.define.env].bindings["x"] = N(8)
    /\ "x" \in DOMAIN prev.frames[global_env].bindings
    /\ frames[global_env].bindings["x"] \in {N(1), N(2), N(3), N(4)}

\* What a symbol stands for when the global frame is f: the value f binds
\* it to, else its primitive, else its special form, else the error.
Resolve(x, f) ==
    IF x \in DOMAIN f.bindings THEN f.bindings[x]
    ELSE IF x \in DOMAIN primitives THEN PrimitiveE(primitives[x])
    ELSE IF x \in DOMAIN reserved_words THEN SpecialFormE(reserved_words[x])
    ELSE UnboundVariable

NotAProcedure == RuntimeError("Attempt to apply a non-procedure")

\* C10: a symbol stands for what the environment chain binds it to, then
\* for a primitive, then for a special form, and is unbound otherwise; a list
\* whose head symbol is bound in the chain is the application of the bound
\* value even when the symbol names a primitive or a special form:
\* (car (cons 1 2)) with car bound calls the bound closure, or fails because
\* the bound value is no procedure, and so do (if 1 2) with if bound, and the
\* let bodies that rebind if and cdr.
C10_SymbolResolution ==
    /\ input.t = "E_VAR" => val = Resolve(input.x, prev.frames[global_env])
    /\ (input = CarCons /\ "car" \in DOMAIN prev.frames[global_env].bindings)
       => val = IF prev.frames[global_env].bindings["car"].t = "E_PROC"
                THEN N(7) ELSE NotAProcedure
    /\ (/\ input = L3(S("if"), N(1), N(2))
        /\ "if" \in DOMAIN prev.frames[global_env].bindings)
       => val = N(2)
    /\ input = LetIf => val = N(2)
    /\ input = LetCdr => val = NotAProcedure

WrongNumber == RuntimeError("Wrong number of arguments")

\* C11: a call of a closure with a number of arguments other than its number
\* of parameters, fewer or more or none, fails with the arity error and the
\* body is never evaluated: no frame is made, no call of the body starts and
\* the assignment in the body does not happen.  With the right number the
\* body runs.
C11_ArityChecked ==
    \A j \in 0..MaxArgs :
        (/\ input = CallF(j)
         /\ "f" \in DOMAIN prev.frames[global_env].bindings)
        => IF Len(prev.frames[global_env].bindings["f"].parameters) # j
           THEN /\ val = WrongNumber
                /\ frames = prev.frames
                /\ probe.apply = <<>>
                /\ probe.set = <<>>
           ELSE /\ probe.apply # <<>>
                /\ probe.set # <<>>
                /\ Len(frames) = Len(prev.frames) + 1

C11_Witness ==
    /\ input = CallF(1)
    /\ "f" \in DOMAIN prev.frames[global_env].bindings
    /\ Len(prev.frames[global_env].bindings["f"].parameters) = 2
    /\ "n" \in DOMAIN prev.frames[global_env].bindings
    /\ val = WrongNumber
    /\ frames[global_env].bindings["n"] = N(0)

\* The clause of cs, from the i-th on, that cond is to take: the first whose
\* test is not #f, else being a test that always holds; 0 if there is none.
RECURSIVE Matching(_, _)
Matching(cs, i) ==
    IF i > Len(cs) THEN 0
    ELSE IF cs[i] = ElseClause \/ cs[i].terms[1] # BooleanE(FALSE) THEN i
    ELSE Matching(cs, i + 1)

\* The names defined by the bodies of the clauses of cs that differ from the
\* m-th.
OtherBodies(cs, m) ==
    {cs[i].terms[2].terms[2].x :
        i \in {j \in 1..Len(cs) : /\ Len(cs[j].terms) = 3
                                  /\ (m = 0 \/ cs[j] # cs[m])}}

\* C12: the result of cond comes from the first clause whose test is truthy:
\* a clause of a test alone gives the test's value if that is truthy and is
\* skipped otherwise, a clause with a body has the body evaluated only if its
\* test is truthy, an unshadowed else as the last clause always matches, and
\* the result is the absent value when no clause matches.
C12_CondFirstTruthy ==
    (/\ input \in CondForms
     /\ "else" \notin DOMAIN prev.frames[global_env].bindings)
    => LET cs == Tail(input.terms)
           m == Matching(cs, 1)
       IN /\ val = IF m = 0 THEN NullHandle
                   ELSE cs[m].terms[Len(cs[m].terms)]
          /\ \A x \in OtherBodies(cs, m) :
                 x \in DOMAIN frames[global_env].bindings
                     => x \in DOMAIN prev.frames[global_env].bindings
          /\ (m # 0 /\ Len(cs[m].terms) = 3)
                 => cs[m].terms[2].terms[2].x
                        \in DOMAIN frames[global_env].bindings

\* The value of an operand of AndOrInputs.
OperandValue(e) == IF e = Traced THEN N(8) ELSE e

\* The operand of es, from the i-th on, that decides (op e ...): the first
\* that is #f for and, the first that is not #f for or, else the last.
RECURSIVE Deciding(_, _, _)
Deciding(op, es, i) ==
    IF i >= Len(es) THEN i
    ELSE IF (OperandValue(es[i]) = BooleanE(FALSE)) = (op = "and") THEN i
    ELSE Deciding(op, es, i + 1)

\* C13: and and or evaluate their operands from the left and stop at the
\* deciding one: and gives the first #f, or the last value if there is none
\* (#t without operands); or gives the first value other than #f, or the last
\* value (#f without operands); the operands up to the deciding one are
\* evaluated and those after it are not, so that their side effect, the
\* definition of p, does not happen.
C13_ShortCircuit ==
    input \in AndOrInputs
    => LET op == input.terms[1].x
           es == Tail(input.terms)
           d == Deciding(op, es, 1)
       IN /\ val = IF es = <<>> THEN BooleanE(op = "and")
                   ELSE OperandValue(es[d])
          /\ "p" \in DOMAIN frames[global_env].bindings
             <=> \/ "p" \in DOMAIN prev.frames[global_env].bindings
                 \/ \E i \in 1..d : i <= Len(es) /\ es[i] = Traced

C13_Witness ==
    /\ input = L4(S("and"), N(7), BooleanE(FALSE), Traced)
    /\ val = BooleanE(FALSE)
    /\ "p" \notin DOMAIN frames[global_env].bindings

\* The absolute value of an integer, and whether n and d have no common
\* divisor but 1.
Abs(n) == IF n < 0 THEN -n ELSE n

Coprime(n, d) ==
    IF n = 0 THEN Abs(d) = 1
    ELSE \A k \in 2..Abs(n) : Abs(n) % k # 0 \/ Abs(d) % k # 0

\* The numerator and the denominator of a number.
Num(v) == IF v.t = "E_FIXNUM" THEN v.n ELSE v.numerator
Den(v) == IF v.t = "E_FIXNUM" THEN 1 ELSE v.denominator

\* The input is a list that starts with the symbol op.
IsForm(op) == input.t = "E_SLIST" /\ input.terms[1] = S(op)

\* C14: for all integers a and b # 0 of the range of int, the rational a/b,
\* made here by (/ a b), has a numerator n and a denominator d with
\* n * b = a * d, no common divisor of n and d but 1, and d > 0; and no
\* rational value has a zero or negative denominator.
C14_ReducedRational ==
    /\ (/\ IsForm("/")
        /\ isInt(input.terms[2]) /\ isInt(input.terms[3])
        /\ input.terms[3].n # 0)
       => /\ isNum(val)
          /\ Num(val) * input.terms[3].n = input.terms[2].n * Den(val)
          /\ Coprime(Num(val), Den(val))
          /\ Den(val) > 0
    /\ val.t = "E_RATIONAL" => val.denominator > 0

\* The exact value [n, d] of a form of WholeForms, d > 0 and not reduced.
Positive(n, d) == IF d < 0 THEN [n |-> -n, d |-> -d] ELSE [n |-> n, d |-> d]

Exact(x) ==
    IF x.t = "E_FIXNUM" THEN [n |-> x.n, d |-> 1]
    ELSE IF x.t = "E_RATIONAL" THEN [n |-> x.numerator, d |-> x.denominator]
    ELSE LET a == x.terms[2]
             b == x.terms[3]
         IN CASE x.terms[1].x = "+" ->
                   [n |-> a.numerator * b.denominator
                              + b.numerator * a.denominator,
                    d |-> a.denominator * b.denominator]
              [] x.terms[1].x = "-" ->
                   [n |-> a.numerator * b.denominator
                              - b.numerator * a.denominator,
                    d |-> a.denominator * b.denominator]
              [] x.terms[1].x = "*" ->
                   [n |-> a.numerator * b.numerator,
                    d |-> a.denominator * b.denominator]
              [] x.terms[1].x = "/" ->
                   Positive(a.numerator * b.denominator,
                            a.denominator * b.numerator)

Whole(x) == Exact(x).n % Exact(x).d = 0

\* C15: a rational whose reduced denominator is 1 is an integer, whether it
\* comes from arithmetic or from a rational literal: the integer predicate
\* answers #t for it, and eq? with an integer k answers whether it is k, as
\* for an integer literal.
C15_WholeIsInteger ==
    /\ (IsForm("number?") /\ Whole(input.terms[2]))
       => val = BooleanE(TRUE)
    /\ (IsForm("eq?") /\ Whole(input.terms[2]))
       => val = BooleanE(Exact(input.terms[2]).n
                             = input.terms[3].n * Exact(input.terms[2]).d)

\* The exact numbers H_Plus, H_Minus, H_Mult and H_Div compute for the form
\* x = (op a b): the cross-products, numerator3 and denominator3.
Intermediates(x) ==
    LET a == Exact(x.terms[2])
        b == Exact(x.terms[3])
    IN CASE x.terms[1].x = "+" ->
              {a.n * b.d, a.d * b.n, a.n * b.d + a.d * b.n, a.d * b.d}
         [] x.terms[1].x = "-" ->
              {a.n * b.d, a.d * b.n, a.n * b.d - a.d * b.n, a.d * b.d}
         [] x.terms[1].x = "*" -> {a.n * b.n, a.d * b.d}
         [] x.terms[1].x = "/" -> {a.n * b.d, a.d * b.n}

InRange(n) == INT_MIN <= n /\ n <= INT_MAX

\* C16: overflow of int is never silently wrapped: when the exact result of
\* + - * / on integers or rationals, or a cross-product computed for it, is
\* outside the range of int, the operation fails with an error and returns
\* no value.
C16_OverflowDetected ==
    (/\ \E op \in {"+", "-", "*", "/"} : IsForm(op)
     /\ \E n \in Intermediates(input) : ~InRange(n))
    => val.t = "error"

\* base^exponent for exponent >= 0, or a number above INT_MAX if it is
\* outside the range of int.
RECURSIVE PowerCap(_, _)
PowerCap(a, b) ==
    IF b = 0 THEN 1
    ELSE LET q == PowerCap(a, b - 1) IN
         IF InRange(q) /\ InRange(q * a) THEN q * a ELSE INT_MAX + 1

Power(a, b) ==
    CASE a = 0 -> 0
      [] a = 1 -> 1
      [] a = -1 -> IF b % 2 = 0 THEN 1 ELSE -1
      [] OTHER -> IF b > IntBits THEN INT_MAX + 1 ELSE PowerCap(a, b)

\* C17: (expt base exponent) fails for a negative exponent and fails as
\* undefined for 0^0; otherwise it is base^exponent when that lies in
\* [INT_MIN, INT_MAX], INT_MIN included, and the overflow error exactly when
\* it does not.
C17_ExptExact ==
    IsForm("expt")
    => LET a == input.terms[2].n
           b == input.terms[3].n
       IN CASE b < 0 ->
                 val = RuntimeError("Negative exponent not supported for Fixnums")
            [] b = 0 /\ a = 0 -> val = RuntimeError("0^0 is undefined")
            [] OTHER ->
                 val = IF InRange(Power(a, b)) THEN N(Power(a, b))
                       ELSE RuntimeError("Fixnum overflow in expt")

C17_Witness ==
    /\ input = L3(S("expt"), N(-2), N(IntBits - 1))
    /\ val = N(INT_MIN)

\* The operands of the input are numbers.
Numeric == \A i \in 2..Len(input.terms) : isNum(input.terms[i])

\* The exact order of two numbers under the relation rel.
Related(rel, a, b) ==
    LET l == Exact(a).n * Exact(b).d
        r == Exact(b).n * Exact(a).d
    IN CASE rel = "<" -> l < r
         [] rel = "<=" -> l <= r
         [] rel = "=" -> l = r
         [] rel = ">=" -> l >= r
         [] rel = ">" -> l > r

\* C18: a chained comparison of numbers, integers and rationals mixed, is #t
\* iff every adjacent pair satisfies the relation in the exact order of the
\* rationals; it is #t for no operand and for one.
C18_ChainedComparison ==
    \A rel \in Relations :
        (IsForm(rel) /\ Numeric)
        => val = BooleanE(\A i \in 2..(Len(input.terms) - 1) :
                              Related(rel, input.terms[i], input.terms[i + 1]))

\* The input has an operand that is zero, from its i-th term on.
ZeroFrom(i) ==
    \E j \in i..Len(input.terms) :
        isNum(input.terms[j]) /\ Exact(input.terms[j]).n = 0

DivisionByZero == RuntimeError("Division by zero")

\* C19: a division by a zero-valued operand fails with the division-by-zero
\* error and yields no value: (/ x) with x zero, (/ a b ...) with a divisor
\* after the first that is the integer 0 or a rational with numerator 0, and
\* (modulo a 0).
C19_DivisionByZero ==
    /\ (IsForm("/") /\ Numeric /\ Len(input.terms) = 2 /\ ZeroFrom(2))
       => val = DivisionByZero
    /\ (IsForm("/") /\ Numeric /\ Len(input.terms) > 2 /\ ZeroFrom(3))
       => val = DivisionByZero
    /\ IsForm("modulo") => val = DivisionByZero

\* C20: an operand of the wrong type fails with the type error whatever its
\* position: an arithmetic or comparison operator with an operand that is a
\* string, a boolean, a pair or a procedure fails, also a comparison of one
\* such operand and a chain in which an earlier pair fails the relation.
C20_TypeError ==
    (/\ \E op \in Relations \cup {"+", "-", "*", "/"} : IsForm(op)
     /\ \E i \in 2..Len(input.terms) : input.terms[i] \in NonNumbers)
    => /\ val.t = "error"
       /\ val.msg \in {"Wrong typename", "Wrong typename in numeric comparison"}

\* C21: in every reachable state the car and the cdr of every pair cell are
\* values and never the null handle, after cons, list, quote, set-car! and
\* set-cdr!, also when an operand is an expression that gives the absent
\* result.
C21_PairFieldsValid ==
    \A j \in 1..Len(cells) :
        cells[j].car # NullHandle /\ cells[j].cdr # NullHandle

WrongTypename == RuntimeError("Wrong typename")

\* C22: an error aborts the evaluation of its input at once and reaches the
\* loop, which goes on with the same global environment; the loop stops only
\* when the result of an input is the exit value, never because of an error.
C22_ErrorsReachLoop ==
    /\ val.t = "error" => running
    /\ ~running => val = ExitE
    /\ input = ErrFirst
       => /\ val = WrongTypename
          /\ frames = prev.frames


\* C23: a name is checked wherever a binding is introduced (define, function
\* define, lambda parameters, let, letrec): an ill-formed name adds no binding.
C23_NamesChecked ==
    \A f \in 1..Len(frames) : \A x \in DOMAIN frames[f].bindings :
        is_valid_var(x)


\* The procedures the session holds: the last result and what frames bind.
Procedures ==
    {p \in {val} \cup UNION {{frames[f].bindings[x] :
                                  x \in DOMAIN frames[f].bindings} :
                             f \in 1..Len(frames)} : p.t = "E_PROC"}

\* C24: a lambda or a function define that names a parameter twice is
\* rejected, so no procedure with a repeated parameter exists.
C24_ParametersDistinct ==
    \A p \in Procedures : \A i, j \in 1..Len(p.parameters) :
        i # j => p.parameters[i] # p.parameters[j]


RECURSIVE Text(_)
RECURSIVE TextFrom(_, _)
\* The text of a term as it is typed: a name, a number, or the texts of the
\* elements of a list between parentheses, one space apart.
Text(e) ==
    CASE e.t = "E_VAR" -> e.x
      [] e.t = "E_FIXNUM" -> ToString(e.n)
      [] e.t = "E_SLIST" ->
            IF e.terms = <<>> THEN "()" ELSE "(" \o TextFrom(e.terms, 1) \o ")"

TextFrom(terms, i) ==
    IF i = Len(terms) THEN Text(terms[i])
    ELSE Text(terms[i]) \o " " \o TextFrom(terms, i + 1)

\* A list is typed with a dotted tail.
Dotted(e) ==
    /\ e.t = "E_SLIST"
    /\ Len(e.terms) >= 3
    /\ e.terms[Len(e.terms) - 1] = S(".")

RECURSIVE Normal(_)
\* The same datum typed without a dot in front of a list: (a . (b c)) is
\* (a b c), (a . ()) is (a), inside elements too.
Normal(e) ==
    IF e.t # "E_SLIST" THEN e
    ELSE LET terms == [i \in 1..Len(e.terms) |-> Normal(e.terms[i])]
             n == Len(terms) IN
         IF Dotted(e) /\ terms[n].t = "E_SLIST"
         THEN Normal(SListE(SubSeq(terms, 1, n - 2) \o terms[n].terms))
         ELSE SListE(terms)

\* C25 as stated: the result of quoting a literal list is shown as the text
\* of the list as typed, a dotted list with the same dot.
C25_QuoteShowsText ==
    IsForm("quote") => Expr_show(val, cells) = Text(input.terms[2])

\* C25: the result of quoting a literal list is shown as the text of the
\* list, a proper list as (a b c) and a dotted one with its dot, except that
\* a dot in front of a list is not shown: (a . (b c)) reads (a b c).
C25_QuoteShowsNormalText ==
    IsForm("quote") => Expr_show(val, cells) = Text(Normal(input.terms[2]))

C25_Witness ==
    /\ input = L2(S("quote"), L3(S("a"), S("."), L2(S("a"), S("b"))))
    /\ Expr_show(val, cells) = "(a a b)"


\* The frame of the chain from env that binds x with no binder of x nearer.
Nearest(x, env, fr) ==
    CHOOSE f \in Chain(env, fr) :
        /\ x \in DOMAIN fr[f].bindings
        /\ \A g \in Chain(env, fr) :
               x \in DOMAIN fr[g].bindings => g \in Chain(f, fr)

\* C26: (set! name expr), with name bound in one or several frames of the
\* chain, evaluates expr in the current environment and overwrites the
\* nearest binding of name only: the outer bindings of name, every other
\* name and the set of frames are as before.
C26_SetNearest ==
    /\ (/\ probe.set # <<>>
        /\ ~Unbound(probe.set.var, probe.set.env, probe.set.before))
       => LET b == probe.set.before
              a == probe.set.after
              f == Nearest(probe.set.var, probe.set.env, probe.set.before)
          IN /\ probe.set.ok
             /\ Len(a) = Len(b)
             /\ a[f].bindings[probe.set.var] = probe.set.value
             /\ \A g \in 1..Len(b) :
                    /\ a[g].parent = b[g].parent
                    /\ DOMAIN a[g].bindings = DOMAIN b[g].bindings
                    /\ \A y \in DOMAIN b[g].bindings :
                           \/ g = f /\ y = probe.set.var
                           \/ a[g].bindings[y] = b[g].bindings[y]
    /\ input = SetShadow
       => /\ val = N(6)
          /\ frames[global_env] = prev.frames[global_env]

\* x was bound in the global frame and in a let frame two frames nearer; the
\* set! wrote 6 there.
C26_Witness ==
    /\ input = SetShadow
    /\ "x" \in DOMAIN prev.frames[global_env].bindings
    /\ probe.set # <<>>
    /\ Cardinality({g \in Chain(probe.set.env, probe.set.before) :
                        "x" \in DOMAIN probe.set.before[g].bindings}) = 2
    /\ val = N(6)


\* C30: every call of a closure gets a frame of its own, new, whose parent is
\* the captured frame and which binds the parameters; what the body binds or
\* defines is in no frame that existed before the call (the caller's, the
\* captured one, the frame of another call): it is seen only through a
\* closure made during the call.
C30_FreshFramePerCall ==
    /\ probe.apply # <<>>
       => LET q == probe.apply IN
          /\ q.param_env = Len(q.frames)
          /\ q.param_env > Len(prev.frames)
          /\ q.param_env \notin {q.caller, q.proc.env}
          /\ q.frames[q.param_env].parent = q.proc.env
          /\ DOMAIN q.frames[q.param_env].bindings =
                 {q.proc.parameters[i] : i \in 1..Len(q.proc.parameters)}
    /\ {"a", "loc"} \cap DOMAIN frames[global_env].bindings = {}
    /\ \A k \in 1..2 :
           /\ (input = DefC(k) /\ ~Abrupt(val))
              => /\ SubSeq(frames, 2, Len(prev.frames)) =
                        SubSeq(prev.frames, 2, Len(prev.frames))
                 /\ frames[global_env].bindings[CName(k)].env > Len(prev.frames)
           /\ (input = CallC(k) /\ CName(k) \in DOMAIN prev.frames[global_env].bindings)
              => val = N(k)
    /\ (input = CallH /\ ~Abrupt(val))
       => /\ val = N(11)
          /\ SubSeq(frames, 1, Len(prev.frames)) = prev.frames

\* c1 and c2 were made by two calls of mk; c1, called after both, returned
\* the 1 of its own call.
C30_Witness ==
    /\ input = CallC(1)
    /\ {"c1", "c2"} \subseteq DOMAIN frames[global_env].bindings
    /\ frames[global_env].bindings["c1"].env # frames[global_env].bindings["c2"].env
    /\ val = N(1)


\* p is a pair in the global frame of fr.
IsPairP(fr) ==
    /\ "p" \in DOMAIN fr[global_env].bindings
    /\ fr[global_env].bindings["p"].t = "E_PAIR"

\* C28: an error does not undo what its input did before it.  The define, the
\* set-car! and the set! that (begin (define y 2) (set-car! p 9) (set! x 7)
\* (car 1)) performs before it fails stay, and the next input observes them.
C28_EffectsKept ==
    [][/\ input' = ErrLast
          => /\ val'.t = "error"
             /\ running'
             /\ Lookup("y", global_env, frames') = N(2)
             /\ IsPairP(frames)
                => cells'[frames[global_env].bindings["p"].id].car = N(9)
             /\ (IsPairP(frames) /\ "x" \in DOMAIN frames[global_env].bindings)
                => Lookup("x", global_env, frames') = N(7)
       /\ (input = ErrLast /\ input' = S("y")) => val' = N(2)
       /\ (input = ErrLast /\ input' = L2(S("car"), S("p")) /\ IsPairP(frames))
          => val' = N(9)
       /\ (input = ErrLast /\ input' = S("x") /\ IsPairP(frames)
             /\ "x" \in DOMAIN prev.frames[global_env].bindings)
          => val' = N(7)]_vars

\* The failing input changed the pair p, and the next input read the 9.
C28_Witness ==
    /\ input = L2(S("car"), S("p"))
    /\ val = N(9)
    /\ "y" \in DOMAIN frames[global_env].bindings


RECURSIVE LogOf(_, _)
\* The numbers noted in the list v, the first noted first.
LogOf(v, cs) ==
    IF v.t = "E_PAIR" THEN Append(LogOf(cs[v.id].cdr, cs), cs[v.id].car.n)
    ELSE <<>>

\* What the operands of this input noted in t, when t was bound before it.
Noted ==
    LET before == LogOf(prev.frames[global_env].bindings["t"], prev.cells)
        after == LogOf(frames[global_env].bindings["t"], cells)
    IN SubSeq(after, Len(before) + 1, Len(after))

TBound == "t" \in DOMAIN prev.frames[global_env].bindings

\* C27: the operands of every binary operator are evaluated from left to
\* right, the operands of a variadic operator and the arguments of a call in
\* the order of the list.
C27_LeftToRight ==
    /\ (TBound /\ input \in BinaryForms) => Noted = <<1, 2>>
    /\ (TBound /\ input \in VariadicForms) => Noted = <<1, 2, 3>>
    /\ (TBound /\ input \in CallForms)
       => Noted = [i \in 1..Len(input.terms) |-> i - 1]


\* C29: in a call of a closure the head is evaluated first, then every
\* argument, in the caller's environment, and only then is the count of the
\* arguments compared with the count of the parameters: a call with a wrong
\* count fails with the arity error after the head and all its arguments
\* have had their effects.
C29_ArityAfterArguments ==
    (TBound /\ input \in CallForms)
    => /\ Noted = [i \in 1..Len(input.terms) |-> i - 1]
       /\ val = IF Len(input.terms) - 1 = 2 THEN N(6) ELSE WrongNumber

\* A call with three arguments of a closure of two parameters failed after
\* the head and the three arguments were evaluated.
C29_Witness ==
    /\ TBound
    /\ input \in CallForms
    /\ Len(input.terms) = 4
    /\ Noted = <<0, 1, 2, 3>>
    /\ val = WrongNumber

====
